---- MODULE Spec2Model ----
(***************************************************************************)
(* Webhook delivery engine of sst-webhook-service: the SQS-triggered       *)
(* processor (handler / processWebhookDelivery / attemptWebhookDelivery),  *)
(* the main queue and its dead-letter queue as configured in index.ts,     *)
(* and the dead-letter operations of the Webhook module.                   *)
(***************************************************************************)
EXTENDS Integers, Sequences, FiniteSets, TLC

(***************************************************************************)
(* Bounds of the model.                                                    *)
(***************************************************************************)
\* events ingested by event.create in one behaviour of the pipeline
MaxEvents == 2
\* events ingested in one behaviour that follows a message through its redeliveries
MaxRedelivered == 1
\* dead-lettered events the DLQ holds when a redrive starts
MaxDlq == 2
\* length of the eventIds argument of retryFailed
MaxIds == 2
\* entries the DLQ holds when Webhook.failed is called: one more than a page
MaxInspected == 11
\* records handed to one invocation of the processor (index.ts allows 10)
MaxBatch == 2

(***************************************************************************)
(* Program constants.                                                      *)
(***************************************************************************)
\* dlq.retry of the main queue
maxReceiveCount == 3

Tenants == {"t1", "t2"}
Wildcard == "*"
\* event types event.create is called with: z.string().min(1).max(100)
\* accepts every non-empty string, the string "*" included
IngestTypes == {"order.created", Wildcard}

\* the rows of the listener table, as Webhook.create wrote them
ListenerPool ==
    { [webhookId |-> "w1", tenantId |-> "t1", url |-> "u1",
       eventType |-> "order.created", secret |-> "s1", isActive |-> TRUE,
       createdAt |-> 0, updatedAt |-> 0],
      [webhookId |-> "w2", tenantId |-> "t1", url |-> "u2",
       eventType |-> Wildcard, secret |-> "s2", isActive |-> TRUE,
       createdAt |-> 0, updatedAt |-> 0],
      [webhookId |-> "w3", tenantId |-> "t1", url |-> "u3",
       eventType |-> "user.updated", secret |-> "s3", isActive |-> TRUE,
       createdAt |-> 0, updatedAt |-> 0],
      [webhookId |-> "w4", tenantId |-> "t2", url |-> "u4",
       eventType |-> "order.created", secret |-> "s4", isActive |-> TRUE,
       createdAt |-> 0, updatedAt |-> 0] }

\* the listener that update switches on and off while the pipeline runs
ToggledIds == {"w1"}
\* the listeners that update switches on and off during one invocation of handler
HandlerToggledIds == {"w1", "w2", "w4"}

\* HTTP statuses a listener answers with
Statuses == {200, 299, 300, 500}
\* status recorded for a delivery whose fetch (or body read) raised
NetworkError == -1
\* status recorded while no answer has arrived
Pending == 0
\* status recorded for a fetch that will never settle (the call sets no timeout)
Hung == -2
\* metadata argument of event.create when the caller passes none
NoMetadata == [none |-> TRUE]

\* const maxReceiveAttempts = 10
maxReceiveAttempts == 10
\* MaxNumberOfMessages of the ReceiveMessageCommand of retryFailed
MaxNumberOfMessages == 10
\* the callers of the dead-letter operations
Callers == {1, 2}
\* the empty Map
EmptyMap == [k \in {} |-> {}]
\* a caller that is not inside retryFailed
IdleCall ==
    [pc |-> "idle", eventIds |-> <<>>, receiveAttempts |-> 0, foundEvents |-> EmptyMap,
     i |-> 1, retriedEvents |-> <<>>, failedRetries |-> <<>>, notFoundEvents |-> <<>>,
     dlqAtCall |-> {}, mainAtCall |-> {},
     \* history of the call: ReceiveMessage calls issued, messageIds they returned,
     \* and what each pass of the retry loop met
     reads |-> 0, readEntries |-> {}, outcomes |-> <<>>,
     \* totalProcessed of the returned object
     totalProcessed |-> 0]

\* a caller that is not inside Webhook.failed
IdleInspect ==
    [pc |-> "idle", tenantId |-> "", limit |-> 0, deleteProcessed |-> FALSE,
     response |-> {}, failedEvents |-> {}, hasMore |-> FALSE,
     \* history of the call: the DLQ at its start and the messageIds whose
     \* DeleteMessage succeeded
     dlqAtCall |-> {}, deleted |-> {},
     \* history of the caller: the calls started so far and the eventIds the
     \* call before this one returned
     calls |-> 0, previous |-> {}]

\* no Webhook.create call is running
IdleCreate ==
    [pc |-> "idle", tenantId |-> "", url |-> "", eventTypes |-> <<>>, webhookSecret |-> "",
     branch |-> <<>>, webhooks |-> <<>>, error |-> "none", createIds |-> 0]

\* the queue urls of a deployment whose resources are linked; "" is what the
\* module falls back to when the import of the resources raises
NotConfigured == ""
Configured == [queueUrl |-> "queue", dlqUrl |-> "dlq"]

\* no error was caught
NoError == [kind |-> "none", code |-> "", message |-> ""]
IdleHttp ==
    [tenantId |-> "t1", pc |-> "idle", method |-> "", path |-> <<>>, route |-> "",
     webhookId |-> "",
     error |-> NoError, status |-> 0, rows |-> {}, requests |-> 0]

\* no call of the listener API was made
NoCall ==
    [call |-> "none", webhookId |-> "", updates |-> <<>>, error |-> "none", at |-> 0,
     removed |-> {}]

VARIABLES
    registry,           \* rows of the listener table
    mainQ,              \* messages of WebhookServiceQueue
    dlq,                \* messages of WebhookServiceDLQ
    nextId,             \* next value of createId()
    nextMsgId,          \* next MessageId SQS assigns
    clock,              \* wall clock read by new Date()
    phase,              \* position of the processor invocation
    batch,              \* event.Records of the running invocation
    idx,                \* index of the record the for loop is at
    deliveries,         \* the fetch calls of the current record
    batchItemFailures,  \* the handler's local list
    processed,          \* history: per record of this batch, what its processing met:
                        \* "lookupError", "noWebhooks", "all2xx" (every call answered
                        \* 200..299) or "failed" (a call raised or was answered otherwise)
    ok2xx,              \* history: <<messageId, webhookId>> answered 2xx in a finished
                        \* attempt of a message still on the main queue
    deadLettered,       \* history: eventIds of the messages ever placed on the DLQ
    rf,                 \* per caller, the position and locals of its retryFailed call
    insp,               \* the position and locals of the Webhook.failed call
    cr,                 \* the position and locals of the Webhook.create call
    op,                 \* the outcome of the latest call of the listener API
    env,                \* queueUrl and dlqUrl, as the module read them when loaded
    http                \* the request Webhook.handler is serving, and its response

vars == <<registry, mainQ, dlq, nextId, nextMsgId, clock, phase, batch, idx, deliveries,
          batchItemFailures, processed, ok2xx, deadLettered, rf, insp, cr, op, env, http>>

\* the variables of the operations on the dead-letter queue
apiVars == <<rf, insp, cr, op, env, http>>

procVars == <<phase, batch, idx, deliveries, batchItemFailures, processed>>

(***************************************************************************)
(* Helpers on sequences and sets.                                          *)
(***************************************************************************)
Range(s) == {s[i] : i \in 1..Len(s)}

\* sort-key order of the table's rows
IdOrder == <<"w1", "w2", "w3", "w4">>

\* the rows S as a query returns them: a list in sort-key (webhookId) order
Rows(S) ==
    LET ids == SelectSeq(IdOrder, LAMBDA id : \E w \in S : w.webhookId = id)
    IN [i \in 1..Len(ids) |-> CHOOSE w \in S : w.webhookId = ids[i]]

\* all orderings of a set of message ids, as sequences without repetition
Orderings(S) ==
    {s \in [1..Cardinality(S) -> S] : \A i, j \in 1..Cardinality(S) : i # j => s[i] # s[j]}

MsgById(q, id) == CHOOSE m \in q : m.messageId = id

(***************************************************************************)
(* Listener registry: the two index lookups of processWebhookDelivery.     *)
(***************************************************************************)
\* webhookEntity.query.byTenantAndEventType({tenantId, eventType})
byTenantAndEventType(reg, tenantId, eventType) ==
    {w \in reg : w.tenantId = tenantId /\ w.eventType = eventType}

\* the query without its where clause
ActiveQueryNoFilter(reg, tenantId, eventType) ==
    Rows(byTenantAndEventType(reg, tenantId, eventType))

\* ... .where(isActive = true).go().then(r => r.data)
ActiveQuery(reg, tenantId, eventType) ==
    Rows({w \in byTenantAndEventType(reg, tenantId, eventType) : w.isActive = TRUE})

\* const webhooks = [...specificWebhooks, ...wildcardWebhooks]
MatchWebhooks(reg, tenantId, eventType) ==
    ActiveQuery(reg, tenantId, eventType) \o ActiveQuery(reg, tenantId, Wildcard)

(***************************************************************************)
(* Signer and the outbound call.                                           *)
(***************************************************************************)
\* JSON.stringify of an object literal is kept as the sequence of its keys and
\* values in the order of the literal.
\* the text generateWebhookSignature signs
SignedPayload(message) ==
    << <<"eventId", message.eventId>>, <<"eventType", message.eventType>>,
       <<"tenantId", message.tenantId>>, <<"payload", message.payload>>,
       <<"metadata", message.metadata>>, <<"timestamp", message.timestamp>> >>

\* the text attemptWebhookDelivery posts
RequestBody(message) ==
    << <<"eventId", message.eventId>>, <<"eventType", message.eventType>>,
       <<"tenantId", message.tenantId>>, <<"payload", message.payload>>,
       <<"metadata", message.metadata>>, <<"timestamp", message.timestamp>> >>

\* createHmac("sha256", secret).update(text).digest("hex"): kept symbolic,
\* injective in the key and in the text
Hmac(secret, text) == <<"hmac-sha256", secret, text>>

\* a signature over the payload field alone
generateWebhookSignatureOfPayloadOnly(secret, message) ==
    Hmac(secret, << <<"payload", message.payload>> >>)

generateWebhookSignature(secret, message) ==
    Hmac(secret, SignedPayload(message))

\* the status check with its upper limit included
isSuccessInclusive(status) == status >= 200 /\ status <= 300

\* response.status >= 200 && response.status < 300
isSuccess(status) == status >= 200 /\ status < 300

\* the fetch call of attemptWebhookDelivery, its answer not yet arrived
attemptWebhookDelivery(webhook, message) ==
    [webhookId |-> webhook.webhookId,
     url |-> webhook.url,
     signature |-> generateWebhookSignature(webhook.secret, message),
     xEventType |-> message.eventType,
     xEventId |-> message.eventId,
     xTenantId |-> message.tenantId,
     body |-> RequestBody(message),
     status |-> Pending,
     result |-> "pending"]

\* how the promise of attemptWebhookDelivery settles once the call has answered:
\* fetch or response.text() raised, or the status check threw, or it returned
Settlement(status) ==
    IF status = NetworkError THEN "rejected"
    ELSE IF ~isSuccess(status) THEN "rejected"
    ELSE "fulfilled"

\* the throw only when every delivery was rejected
EveryRejected(ds) == \A i \in 1..Len(ds) : ds[i].result = "rejected"

\* results.filter(result => result.status === "rejected").length > 0
AnyRejected(ds) == \E i \in 1..Len(ds) : ds[i].result = "rejected"

\* Promise.allSettled resolves: every delivery promise has settled
AllSettled(ds) == \A i \in 1..Len(ds) : ds[i].result \in {"fulfilled", "rejected"}

(***************************************************************************)
(* Initial state: the listeners registered, both queues empty, the         *)
(* processor idle.                                                         *)
(***************************************************************************)
InitProc ==
    /\ phase = "idle"
    /\ batch = <<>>
    /\ idx = 1
    /\ deliveries = <<>>
    /\ batchItemFailures = <<>>
    /\ processed = <<>>

Init ==
    /\ registry = ListenerPool
    /\ mainQ = {}
    /\ dlq = {}
    /\ nextId = 1
    /\ nextMsgId = 1
    /\ clock = 1
    /\ InitProc
    /\ ok2xx = {}
    /\ deadLettered = {}
    /\ rf = [c \in Callers |-> IdleCall]
    /\ insp = IdleInspect
    /\ cr = IdleCreate
    /\ op = NoCall
    /\ env = Configured
    /\ http = IdleHttp

(***************************************************************************)
(* Webhook.event.create                                                    *)
(***************************************************************************)
\* a step of EventCreate is a call that returned the created event; the send is
\* skipped when the module has no queueUrl
EventCreate(tenantId, eventType, metadata) ==
    /\ LET timestamp == clock
           message == [eventId |-> nextId,
                       tenantId |-> tenantId,
                       eventType |-> eventType,
                       payload |-> "p",
                       metadata |-> IF metadata = NoMetadata
                                    THEN [timestamp |-> timestamp]
                                    ELSE metadata,
                       timestamp |-> timestamp]
       IN IF env.queueUrl # NotConfigured
          THEN /\ mainQ' = mainQ \cup {[messageId |-> nextMsgId, body |-> message,
                                        receiveCount |-> 0, inflight |-> FALSE]}
               /\ nextMsgId' = nextMsgId + 1
          ELSE UNCHANGED <<mainQ, nextMsgId>>
    /\ nextId' = nextId + 1
    /\ clock' = clock + 1
    /\ UNCHANGED <<apiVars, deadLettered, registry, dlq, procVars, ok2xx>>

(***************************************************************************)
(* update: a partial patch of one row.                                     *)
(***************************************************************************)
\* updates holds the fields the call supplies; with none the row is returned as is
\* .update({ webhookId }).set(updates): the supplied fields, and updatedAt by the
\* set function of the attribute
Patched(w, updates, now) ==
    [f \in DOMAIN w |-> IF f \in DOMAIN updates THEN updates[f]
                        ELSE IF f = "updatedAt" THEN now
                        ELSE w[f]]

\* the table after update: with no field supplied the row is returned as read
RegistryAfterUpdate(reg, webhookId, updates, now) ==
    IF DOMAIN updates = {} THEN reg
    ELSE {IF w.webhookId = webhookId THEN Patched(w, updates, now) ELSE w : w \in reg}

Update(webhookId, updates) ==
    /\ \E w \in registry : w.webhookId = webhookId
    /\ registry' = RegistryAfterUpdate(registry, webhookId, updates, clock)
    /\ UNCHANGED <<apiVars, deadLettered, mainQ, dlq, nextId, nextMsgId, clock, procVars, ok2xx>>

(***************************************************************************)
(* The main queue and the Lambda poller (index.ts: dlq.retry, batch,       *)
(* partialResponses, visibilityTimeout, function timeout).                 *)
(***************************************************************************)
Visible(q) == {m \in q : ~m.inflight}

\* a redrive policy that gives up one receive early
ExhaustedOneEarly(m) == m.receiveCount >= maxReceiveCount - 1

\* the redrive policy of the main queue: the message was received
\* maxReceiveCount times
Exhausted(m) == m.receiveCount >= maxReceiveCount

\* the poller receives a batch and invokes the handler with it
ReceiveBatch ==
    /\ phase = "idle"
    /\ \E S \in SUBSET {m \in Visible(mainQ) : ~Exhausted(m)} :
         /\ S # {}
         /\ Cardinality(S) <= MaxBatch
         /\ \E order \in Orderings({m.messageId : m \in S}) :
              /\ batch' = order
              /\ mainQ' = (mainQ \ S) \cup
                           {[m EXCEPT !.receiveCount = @ + 1, !.inflight = TRUE] : m \in S}
    /\ phase' = "loop"
    /\ idx' = 1
    /\ batchItemFailures' = <<>>
    /\ processed' = <<>>
    /\ deliveries' = <<>>
    /\ UNCHANGED <<apiVars, deadLettered, registry, dlq, nextId, nextMsgId, clock, ok2xx>>

\* a main queue without a dead-letter queue: the exhausted message is dropped
NoDeadLetterTarget(m) == {}

\* dlq: { queue: deadLetterQueue.arn }: what the DLQ receives for the message
DeadLetterTarget(m) == {[messageId |-> m.messageId, body |-> m.body, inflight |-> FALSE]}

\* a message received maxReceiveCount times and visible again goes to the DLQ
MoveToDLQ ==
    /\ \E m \in Visible(mainQ) :
         /\ Exhausted(m)
         /\ mainQ' = mainQ \ {m}
         /\ dlq' = dlq \cup DeadLetterTarget(m)
         /\ ok2xx' = {p \in ok2xx : p[1] # m.messageId}
         /\ deadLettered' = deadLettered \cup {m.body.eventId}
    /\ UNCHANGED <<apiVars, registry, nextId, nextMsgId, clock, procVars>>

(***************************************************************************)
(* handler: the for loop over event.Records, its try/catch, and            *)
(* processWebhookDelivery.                                                 *)
(***************************************************************************)
CurrentRecord == MsgById(mainQ, batch[idx])

\* the catch block of handler, and the step to the next record
CatchAndNext(threw) ==
    /\ batchItemFailures' =
         IF threw THEN Append(batchItemFailures, batch[idx]) ELSE batchItemFailures
    /\ idx' = idx + 1
    /\ phase' = "loop"
    /\ deliveries' = <<>>

\* a record body that is not JSON text
MalformedBody == [text |-> "{"]

\* JSON.parse(record.body) returns a message
Parses(body) == body # MalformedBody

\* JSON.parse raises on the body of the record: processWebhookDelivery throws
RecordParseFails ==
    /\ phase = "loop"
    /\ idx <= Len(batch)
    /\ ~Parses(CurrentRecord.body)
    /\ CatchAndNext(TRUE)
    /\ processed' = Append(processed, "parseError")
    /\ UNCHANGED <<apiVars, deadLettered, registry, mainQ, dlq, nextId, nextMsgId, clock, batch, ok2xx>>

\* one of the two registry queries raises: processWebhookDelivery throws
RecordLookupFails ==
    /\ phase = "loop"
    /\ idx <= Len(batch)
    /\ Parses(CurrentRecord.body)
    /\ CatchAndNext(TRUE)
    /\ processed' = Append(processed, "lookupError")
    /\ UNCHANGED <<apiVars, deadLettered, registry, mainQ, dlq, nextId, nextMsgId, clock, batch, ok2xx>>

\* both queries answer; no webhook: return. Otherwise every fetch is issued
\* (webhooks.map runs each attemptWebhookDelivery up to its first await)
RecordLookup ==
    /\ phase = "loop"
    /\ idx <= Len(batch)
    /\ Parses(CurrentRecord.body)
    /\ LET message == CurrentRecord.body
           webhooks == MatchWebhooks(registry, message.tenantId, message.eventType)
       IN \/ /\ Len(webhooks) = 0
             /\ CatchAndNext(FALSE)
             /\ processed' = Append(processed, "noWebhooks")
          \/ /\ Len(webhooks) > 0
             /\ deliveries' = [i \in 1..Len(webhooks) |->
                                 attemptWebhookDelivery(webhooks[i], message)]
             /\ phase' = "await"
             /\ UNCHANGED <<batchItemFailures, idx, processed>>
    /\ UNCHANGED <<apiVars, deadLettered, registry, mainQ, dlq, nextId, nextMsgId, clock, batch, ok2xx>>

\* the listener of delivery i answers with a status, or the call raises
Respond(i, status) ==
    /\ phase = "await"
    /\ i \in 1..Len(deliveries)
    /\ deliveries[i].result = "pending"
    /\ deliveries' = [deliveries EXCEPT ![i].status = status,
                                        ![i].result = Settlement(status)]
    /\ UNCHANGED <<apiVars, deadLettered, registry, mainQ, dlq, nextId, nextMsgId, clock, phase, batch, idx,
                   batchItemFailures, processed, ok2xx>>

\* the listener of delivery i never answers: fetch is called without a timeout
Hang(i) ==
    /\ phase = "await"
    /\ i \in 1..Len(deliveries)
    /\ deliveries[i].result = "pending"
    /\ deliveries' = [deliveries EXCEPT ![i].status = Hung, ![i].result = "hung"]
    /\ UNCHANGED <<apiVars, deadLettered, registry, mainQ, dlq, nextId, nextMsgId, clock, phase, batch, idx,
                   batchItemFailures, processed, ok2xx>>

\* <<messageId, webhookId>> of the deliveries of message id that were answered 2xx
Answered2xx(id, ds) ==
    {<<id, ds[i].webhookId>> : i \in {j \in 1..Len(ds) : ds[j].status \in 200..299}}

\* Promise.all in place of Promise.allSettled: the first rejection ends the await
SettleReadyFailFast(ds) == AllSettled(ds) \/ AnyRejected(ds)

\* the condition under which processWebhookDelivery goes past its await
SettleReady(ds) == AllSettled(ds)

\* await Promise.allSettled returns; throw if any delivery was rejected
Settle ==
    /\ phase = "await"
    /\ SettleReady(deliveries)
    /\ CatchAndNext(AnyRejected(deliveries))
    /\ processed' = Append(processed,
                           IF \A i \in 1..Len(deliveries) : deliveries[i].status \in 200..299
                           THEN "all2xx" ELSE "failed")
    /\ ok2xx' = ok2xx \cup Answered2xx(batch[idx], deliveries)
    /\ UNCHANGED <<apiVars, deadLettered, registry, mainQ, dlq, nextId, nextMsgId, clock, batch>>

\* a poller that ignores the report and deletes the whole batch
AcknowledgedWholeBatch(records, report) == Range(records)

\* the messages the poller deletes after the handler returned report
Acknowledged(records, report) == Range(records) \ Range(report)

\* return { batchItemFailures }: the poller deletes the records not reported
\* and the reported ones become visible again
HandlerReturn ==
    /\ phase = "loop"
    /\ idx > Len(batch)
    /\ mainQ' = {[m EXCEPT !.inflight = (m.inflight /\ m.messageId \notin Range(batch))] :
                    m \in {x \in mainQ : x.messageId \notin Acknowledged(batch, batchItemFailures)}}
    /\ phase' = "idle"
    /\ batch' = <<>>
    /\ idx' = 1
    /\ batchItemFailures' = <<>>
    /\ processed' = <<>>
    /\ ok2xx' = {p \in ok2xx : p[1] \notin Acknowledged(batch, batchItemFailures)}
    /\ UNCHANGED <<apiVars, deadLettered, registry, dlq, nextId, nextMsgId, clock, deliveries>>

\* a fetch never settles, the function runs into its 30 s timeout and no report
\* is returned: every record of the batch becomes visible again
InvocationTimeout ==
    /\ phase = "await"
    /\ \E i \in 1..Len(deliveries) : deliveries[i].result = "hung"
    /\ mainQ' = {[m EXCEPT !.inflight = (m.inflight /\ m.messageId \notin Range(batch))] :
                    m \in mainQ}
    /\ ok2xx' = ok2xx \cup Answered2xx(batch[idx], deliveries)
    /\ phase' = "idle"
    /\ batch' = <<>>
    /\ idx' = 1
    /\ deliveries' = <<>>
    /\ batchItemFailures' = <<>>
    /\ processed' = <<>>
    /\ UNCHANGED <<apiVars, deadLettered, registry, dlq, nextId, nextMsgId, clock>>

(***************************************************************************)
(* The delivery pipeline: ingestion, the queue, the processor, and a       *)
(* listener switched on and off while deliveries are in flight.            *)
(***************************************************************************)
Pipeline(maxEvents) ==
    \/ /\ nextId <= maxEvents
       /\ \E t \in Tenants, e \in IngestTypes : EventCreate(t, e, NoMetadata)
    \/ \E w \in ToggledIds, a \in BOOLEAN : Update(w, [isActive |-> a])
    \/ ReceiveBatch
    \/ MoveToDLQ
    \/ RecordLookupFails
    \/ RecordLookup
    \/ \E i \in 1..Len(deliveries), s \in {200, 500} : Respond(i, s)
    \/ \E i \in 1..Len(deliveries) : Hang(i)
    \/ Settle
    \/ HandlerReturn
    \/ InvocationTimeout

NextProc == Pipeline(MaxEvents)

SpecProc == Init /\ [][NextProc]_vars

\* one event followed through its redeliveries
NextRedelivery == Pipeline(MaxRedelivered)

SpecRedelivery == Init /\ [][NextRedelivery]_vars

(***************************************************************************)
(* One invocation of handler on a batch the poller received: the records   *)
(* are the input, drawn from every tenant and event type.                  *)
(***************************************************************************)
\* the message event.create enqueues as its n-th event
IngestedBody(n, tenantId, eventType) ==
    [eventId |-> n, tenantId |-> tenantId, eventType |-> eventType, payload |-> "p",
     metadata |-> [timestamp |-> n], timestamp |-> n]

InitHandler ==
    /\ registry = ListenerPool
    /\ \E n \in 1..MaxBatch :
         \E kind \in [1..n -> Tenants \X IngestTypes], malformed \in SUBSET (1..n) :
            /\ mainQ = {[messageId |-> i,
                         body |-> IF i \in malformed THEN MalformedBody
                                  ELSE IngestedBody(i, kind[i][1], kind[i][2]),
                         receiveCount |-> 1, inflight |-> TRUE] : i \in 1..n}
            /\ batch = [i \in 1..n |-> i]
            /\ nextId = n + 1
            /\ nextMsgId = n + 1
            /\ clock = n + 1
    /\ dlq = {}
    /\ phase = "loop"
    /\ idx = 1
    /\ deliveries = <<>>
    /\ batchItemFailures = <<>>
    /\ processed = <<>>
    /\ ok2xx = {}
    /\ deadLettered = {}
    /\ rf = [c \in Callers |-> IdleCall]
    /\ insp = IdleInspect
    /\ cr = IdleCreate
    /\ op = NoCall
    /\ env = Configured
    /\ http = IdleHttp

NextHandler ==
    \/ \E w \in HandlerToggledIds, a \in BOOLEAN : Update(w, [isActive |-> a])
    \/ RecordParseFails
    \/ RecordLookupFails
    \/ RecordLookup
    \/ \E i \in 1..Len(deliveries), s \in Statuses \cup {NetworkError} : Respond(i, s)
    \/ \E i \in 1..Len(deliveries) : Hang(i)
    \/ Settle
    \/ HandlerReturn
    \/ InvocationTimeout

SpecHandler == InitHandler /\ [][NextHandler]_vars

(***************************************************************************)
(* Properties of one invocation of handler.                                *)
(***************************************************************************)
\* the listeners a delivery list posts to
DeliveredSet(ds) == {ds[i].webhookId : i \in 1..Len(ds)}

\* the active listeners of the tenant registered for the type or for "*"
ExpectedListeners(reg, tenantId, eventType) ==
    {w \in reg : /\ w.isActive
                 /\ w.tenantId = tenantId
                 /\ (w.eventType = eventType \/ w.eventType = "*")}

\* the step in which the lookups of the current record answer
LookupStep ==
    /\ phase = "loop"
    /\ idx <= Len(batch)
    /\ \/ phase' = "await"
       \/ processed' = Append(processed, "noWebhooks")

\* the step in which the outcome of the current record is decided after its await
DecideStep == phase = "await" /\ Len(processed') = Len(processed) + 1

\* C1: at every point of the handler's loop, and so in the value it returns,
\* batchItemFailures holds exactly the ids of the records processed so far whose
\* body did not parse, whose lookup raised or that had a delivery raise or answer
\* outside 200..299, each once; a record's presence depends on its own outcome
\* alone.
C1_ReportIsExactlyTheFailedRecords ==
    phase \in {"loop", "await"} =>
        /\ Len(processed) = idx - 1
        /\ \A i \in 1..Len(processed) :
              (batch[i] \in Range(batchItemFailures))
                 <=> (processed[i] \in {"parseError", "lookupError", "failed"})
        /\ Range(batchItemFailures) \subseteq {batch[i] : i \in 1..Len(processed)}
        /\ \A j, k \in 1..Len(batchItemFailures) :
              j # k => batchItemFailures[j] # batchItemFailures[k]

\* C1 witness: the handler is about to return a report of a two-record batch whose
\* first record failed and whose second record succeeded after it
C1_Witness ==
    /\ phase = "loop"
    /\ Len(batch) = 2
    /\ idx = 3
    /\ processed = <<"failed", "all2xx">>
    /\ batchItemFailures = <<batch[1]>>

\* C4: the listeners an event (T,E) is posted to are exactly the active listeners
\* registered for (T,E) or (T,"*"), each at its own url.
C4_DeliveredToExactlyTheActiveMatches ==
    [][LookupStep =>
         LET message == CurrentRecord.body
             expected == ExpectedListeners(registry, message.tenantId, message.eventType)
         IN /\ DeliveredSet(deliveries') = {w.webhookId : w \in expected}
            /\ \A i \in 1..Len(deliveries') :
                  \E w \in expected : /\ w.webhookId = deliveries'[i].webhookId
                                      /\ w.url = deliveries'[i].url]_vars

\* C4 witness: an order.created event of t1 is posted to the wildcard listener w2
\* alone, while w1 is inactive and w3 (other type) and w4 (other tenant) exist
C4_Witness ==
    /\ phase = "await"
    /\ DeliveredSet(deliveries) = {"w2"}
    /\ deliveries[1].xTenantId = "t1"
    /\ deliveries[1].xEventType = "order.created"
    /\ \E w \in registry : w.webhookId = "w1" /\ ~w.isActive
    /\ \E w \in registry : w.webhookId = "w4" /\ w.isActive

\* C5 as claimed: within one processing attempt no listener is posted to twice
C5_NoListenerPostedTwice ==
    \A i, j \in 1..Len(deliveries) :
        i # j => deliveries[i].webhookId # deliveries[j].webhookId

\* C7: a delivery is settled as fulfilled exactly when an answer with a status in
\* 200..299 arrived; any other status, or a raised call, settles it as rejected.
C7_FulfilledIffStatus2xx ==
    \A i \in 1..Len(deliveries) :
        /\ deliveries[i].result = "fulfilled" <=> deliveries[i].status \in 200..299
        /\ deliveries[i].result = "rejected"
              <=> (deliveries[i].status = NetworkError
                   \/ deliveries[i].status \in (Statuses \ (200..299)))

\* C7 witness: one delivery answered 299 and fulfilled, the other answered 300 and
\* rejected
C7_Witness ==
    /\ Len(deliveries) = 2
    /\ deliveries[1].status = 299 /\ deliveries[1].result = "fulfilled"
    /\ deliveries[2].status = 300 /\ deliveries[2].result = "rejected"

\* C8: every matched listener is posted to when the lookups answer; while the
\* record awaits, no delivery is dropped and a settled one stays as it settled;
\* the record's outcome is decided only when every delivery has settled.
C8_AllPostedAndAllAwaited ==
    [][/\ LookupStep =>
            LET message == CurrentRecord.body
            IN \A w \in ExpectedListeners(registry, message.tenantId, message.eventType) :
                  \E i \in 1..Len(deliveries') :
                     /\ deliveries'[i].webhookId = w.webhookId
                     /\ deliveries'[i].result = "pending"
       /\ (phase = "await" /\ phase' = "await") =>
            /\ Len(deliveries') = Len(deliveries)
            /\ \A i \in 1..Len(deliveries) :
                  \/ deliveries'[i] = deliveries[i]
                  \/ deliveries[i].result = "pending"
       /\ DecideStep =>
            \A i \in 1..Len(deliveries) :
               deliveries[i].result \in {"fulfilled", "rejected"}]_vars

\* C8 witness: the first delivery was rejected and the second, still posted and
\* awaited, was answered 200 after it
C8_Witness ==
    /\ phase = "await"
    /\ Len(deliveries) = 2
    /\ deliveries[1].result = "rejected"
    /\ deliveries[2].result = "fulfilled"

(***************************************************************************)
(* Properties of the pipeline: redelivery and consumption.                 *)
(***************************************************************************)
\* the step in which the handler returns its report to the poller
ReturnStep == phase = "loop" /\ idx > Len(batch) /\ phase' = "idle"

ConsumedAfter(outcome) ==
    \A i \in 1..Len(processed) :
        processed[i] = outcome =>
            /\ batch[i] \notin Range(batchItemFailures)
            /\ \A m \in mainQ' : m.messageId = batch[i] => (m.inflight /\ phase' # "idle")
            /\ \A d \in dlq' : d.messageId # batch[i]

\* C3 as claimed: a message whose matched listeners all answered 2xx in an attempt
\* is not reported, is consumed, and is never handed to the processor again nor
\* dead-lettered
C3_All2xxMessageIsConsumed == [][ConsumedAfter("all2xx")]_vars

\* C6 as claimed: a message that no active listener matched causes no HTTP call,
\* is not reported, and is never retried nor dead-lettered
C6_UnmatchedMessageIsConsumed ==
    [][/\ (LookupStep /\ processed' = Append(processed, "noWebhooks"))
            => deliveries' = <<>>
       /\ ConsumedAfter("noWebhooks")]_vars

(***************************************************************************)
(* Webhook.event.retryFailed: poll the DLQ for the requested eventIds,     *)
(* then push each found event onto the main queue and delete it from the   *)
(* DLQ. Each await of the function is one step.                            *)
(***************************************************************************)
pipelineVars == <<registry, nextId, phase, batch, idx, deliveries, batchItemFailures,
                  processed, ok2xx, cr, op, env, http>>

\* a queue's messages without their visibility
Content(q) == {[messageId |-> m.messageId, body |-> m.body] : m \in q}

\* eventIds.includes(x)
Includes(seq, x) == \E j \in 1..Len(seq) : seq[j] = x

\* the call starts: the locals of retryFailed are initialised
\* !dlqUrl || !queueUrl: the call raises not-found / queue.not-configured
RetryFailedNotConfigured(c, eventIds) ==
    /\ rf[c].pc = "idle"
    /\ Len(eventIds) >= 1
    /\ env.dlqUrl = NotConfigured \/ env.queueUrl = NotConfigured
    /\ rf' = [rf EXCEPT ![c] = [IdleCall EXCEPT !.pc = "notConfigured",
                                                !.eventIds = eventIds,
                                                !.dlqAtCall = Content(dlq),
                                                !.mainAtCall = Content(mainQ)]]
    /\ UNCHANGED <<pipelineVars, insp, mainQ, dlq, nextMsgId, clock, deadLettered>>

RetryFailed(c, eventIds) ==
    /\ rf[c].pc = "idle"
    /\ Len(eventIds) >= 1
    /\ env.dlqUrl # NotConfigured /\ env.queueUrl # NotConfigured
    /\ rf' = [rf EXCEPT ![c] = [IdleCall EXCEPT !.pc = "poll",
                                                !.eventIds = eventIds,
                                                !.dlqAtCall = Content(dlq),
                                                !.mainAtCall = Content(mainQ)]]
    /\ UNCHANGED <<pipelineVars, insp, mainQ, dlq, nextMsgId, clock, deadLettered>>

\* a poll loop that gives up after one ReceiveMessage
PollAgainOnce(call) ==
    /\ Cardinality(DOMAIN call.foundEvents) < Len(call.eventIds)
    /\ call.receiveAttempts < 1

\* foundEvents.size < eventIds.length && receiveAttempts < maxReceiveAttempts
PollAgain(call) ==
    /\ Cardinality(DOMAIN call.foundEvents) < Len(call.eventIds)
    /\ call.receiveAttempts < maxReceiveAttempts

\* the messages one ReceiveMessage call may return: up to MaxNumberOfMessages of
\* the visible ones, none only when none is visible (WaitTimeSeconds 1)
Receivable(q) ==
    {S \in SUBSET Visible(q) : /\ Cardinality(S) <= MaxNumberOfMessages
                               /\ (S = {} => Visible(q) = {})}

\* the for loop over response.Messages: every requested eventId among them is set
\* in the Map, to the message that came last in the response
FoundAfter(call, S) ==
    LET hit == {m.body.eventId : m \in {x \in S : Includes(call.eventIds, x.body.eventId)}}
    IN {[id \in DOMAIN call.foundEvents \cup hit |->
            IF id \in hit
            THEN [eventData |-> pick[id].body, receiptHandle |-> pick[id].messageId]
            ELSE call.foundEvents[id]] :
        pick \in {f \in [hit -> S] : \A id \in hit : f[id].body.eventId = id}}

\* the loop condition fails: on to the retry loop
RetryPollExit(c) ==
    /\ rf[c].pc = "poll"
    /\ ~PollAgain(rf[c])
    /\ rf' = [rf EXCEPT ![c].pc = "retry"]
    /\ UNCHANGED <<pipelineVars, insp, mainQ, dlq, nextMsgId, clock, deadLettered>>

\* one ReceiveMessage on the DLQ and the scan of what it returned
RetryPoll(c) ==
    /\ rf[c].pc = "poll"
    /\ PollAgain(rf[c])
    /\ \E S \in Receivable(dlq) :
         IF S = {}
         THEN /\ rf' = [rf EXCEPT ![c].pc = "retry",
                                  ![c].reads = @ + 1]
              /\ dlq' = dlq
         ELSE /\ dlq' = (dlq \ S) \cup {[m EXCEPT !.inflight = TRUE] : m \in S}
              /\ \E found \in FoundAfter(rf[c], S) :
                   rf' = [rf EXCEPT ![c].foundEvents = found,
                                    ![c].receiveAttempts = @ + 1,
                                    ![c].reads = @ + 1,
                                    ![c].readEntries = @ \cup {m.messageId : m \in S}]
    /\ UNCHANGED <<pipelineVars, insp, mainQ, nextMsgId, clock, deadLettered>>

\* the ReceiveMessage call raises: nothing catches it, retryFailed rejects
RetryPollRaises(c) ==
    /\ rf[c].pc = "poll"
    /\ PollAgain(rf[c])
    /\ rf' = [rf EXCEPT ![c].pc = "raised",
                        ![c].reads = @ + 1]
    /\ UNCHANGED <<pipelineVars, insp, mainQ, dlq, nextMsgId, clock, deadLettered>>

\* the eventId the retry loop is at
CurrentId(call) == call.eventIds[call.i]

\* foundEvents.get(eventId) is undefined: notFoundEvents.push, continue
RetryNotFound(c) ==
    /\ rf[c].pc = "retry"
    /\ rf[c].i <= Len(rf[c].eventIds)
    /\ CurrentId(rf[c]) \notin DOMAIN rf[c].foundEvents
    /\ rf' = [rf EXCEPT ![c].notFoundEvents = Append(@, CurrentId(rf[c])),
                        ![c].outcomes = Append(@, "notFound"),
                        ![c].i = @ + 1]
    /\ UNCHANGED <<pipelineVars, insp, mainQ, dlq, nextMsgId, clock, deadLettered>>

\* a retry message whose metadata holds the two retry fields only
retryMessageFreshMetadata(eventData, now) ==
    [eventId |-> eventData.eventId, tenantId |-> eventData.tenantId,
     eventType |-> eventData.eventType, payload |-> eventData.payload,
     metadata |-> [retryAttempt |-> TRUE, originalFailureTime |-> eventData.timestamp],
     timestamp |-> now]

\* the metadata of the entry spread after the two retry fields instead of before
\* them: the fields of an earlier redrive win
retryMessageSpreadLast(eventData, now) ==
    [eventId |-> eventData.eventId,
     tenantId |-> eventData.tenantId,
     eventType |-> eventData.eventType,
     payload |-> eventData.payload,
     metadata |-> [f \in DOMAIN eventData.metadata \cup {"retryAttempt", "originalFailureTime"} |->
                     IF f \in DOMAIN eventData.metadata THEN eventData.metadata[f]
                     ELSE IF f = "retryAttempt" THEN TRUE
                     ELSE eventData.timestamp],
     timestamp |-> now]

\* const retryMessage = { ... }
retryMessage(eventData, now) ==
    [eventId |-> eventData.eventId,
     tenantId |-> eventData.tenantId,
     eventType |-> eventData.eventType,
     payload |-> eventData.payload,
     metadata |-> [f \in DOMAIN eventData.metadata \cup {"retryAttempt", "originalFailureTime"} |->
                     IF f = "retryAttempt" THEN TRUE
                     ELSE IF f = "originalFailureTime" THEN eventData.timestamp
                     ELSE eventData.metadata[f]],
     timestamp |-> now]

\* the SendMessage to the main queue succeeds
RetrySend(c) ==
    /\ rf[c].pc = "retry"
    /\ rf[c].i <= Len(rf[c].eventIds)
    /\ CurrentId(rf[c]) \in DOMAIN rf[c].foundEvents
    /\ mainQ' = mainQ \cup
                 {[messageId |-> nextMsgId,
                   body |-> retryMessage(rf[c].foundEvents[CurrentId(rf[c])].eventData, clock),
                   receiveCount |-> 0, inflight |-> FALSE]}
    /\ nextMsgId' = nextMsgId + 1
    /\ clock' = clock + 1
    /\ rf' = [rf EXCEPT ![c].pc = "delete"]
    /\ UNCHANGED <<pipelineVars, insp, dlq, deadLettered>>

\* what a SendMessage that raised leaves of the DLQ, had the delete been issued
\* before the send
DlqAfterFailedSendDeleteFirst(call) ==
    {m \in dlq : m.messageId # call.foundEvents[CurrentId(call)].receiptHandle}

\* what a SendMessage that raised leaves of the DLQ: the delete is never reached
DlqAfterFailedSend(call) == dlq

\* the SendMessage raises: catch, failedRetries.push
RetrySendRaises(c) ==
    /\ rf[c].pc = "retry"
    /\ rf[c].i <= Len(rf[c].eventIds)
    /\ CurrentId(rf[c]) \in DOMAIN rf[c].foundEvents
    /\ dlq' = DlqAfterFailedSend(rf[c])
    /\ rf' = [rf EXCEPT ![c].failedRetries = Append(@, CurrentId(rf[c])),
                        ![c].outcomes = Append(@, "sendRaised"),
                        ![c].i = @ + 1]
    /\ UNCHANGED <<pipelineVars, insp, mainQ, nextMsgId, clock, deadLettered>>

\* the DLQ after a delete that removed every message the call has received
DlqAfterDeleteOfAllReceived(call) == {m \in dlq : ~m.inflight}

\* the DLQ after DeleteMessage with the receipt handle of the found event
DlqAfterDelete(call) ==
    {m \in dlq : m.messageId # call.foundEvents[CurrentId(call)].receiptHandle}

\* DeleteMessage with the receipt handle succeeds; retriedEvents.push
RetryDelete(c) ==
    /\ rf[c].pc = "delete"
    /\ dlq' = DlqAfterDelete(rf[c])
    /\ rf' = [rf EXCEPT ![c].retriedEvents = Append(@, CurrentId(rf[c])),
                        ![c].outcomes = Append(@, "retried"),
                        ![c].i = @ + 1,
                        ![c].pc = "retry"]
    /\ UNCHANGED <<pipelineVars, insp, mainQ, nextMsgId, clock, deadLettered>>

\* DeleteMessage raises: catch, failedRetries.push
RetryDeleteRaises(c) ==
    /\ rf[c].pc = "delete"
    /\ rf' = [rf EXCEPT ![c].failedRetries = Append(@, CurrentId(rf[c])),
                        ![c].outcomes = Append(@, "deleteRaised"),
                        ![c].i = @ + 1,
                        ![c].pc = "retry"]
    /\ UNCHANGED <<pipelineVars, insp, mainQ, dlq, nextMsgId, clock, deadLettered>>

\* return { retriedEvents, failedRetries, notFoundEvents, totalProcessed }
RetryReturn(c) ==
    /\ rf[c].pc = "retry"
    /\ rf[c].i > Len(rf[c].eventIds)
    /\ rf' = [rf EXCEPT ![c].pc = "done",
                        ![c].totalProcessed = Len(rf[c].eventIds)]
    /\ UNCHANGED <<pipelineVars, insp, mainQ, dlq, nextMsgId, clock, deadLettered>>

\* the visibility timeout of a received DLQ message runs out
DlqVisibilityTimeout ==
    /\ \E m \in dlq :
         /\ m.inflight
         /\ dlq' = (dlq \ {m}) \cup {[m EXCEPT !.inflight = FALSE]}
    /\ UNCHANGED <<pipelineVars, insp, mainQ, nextMsgId, clock, deadLettered, rf>>

(***************************************************************************)
(* Redrive of a dead-letter queue that holds up to MaxDlq dead-lettered    *)
(* events, some of them still invisible from an earlier read.              *)
(***************************************************************************)
\* tenant of the n-th event
TenantOf(n) == IF n % 2 = 1 THEN "t1" ELSE "t2"

\* the body event.create gave the n-th event
Original(n) == IngestedBody(n, TenantOf(n), "order.created")

\* the eventIds arguments: lists of 1..MaxIds ids, repeated ids and one id that
\* was never dead-lettered included
RequestedIds == UNION {[1..n -> 1..(MaxDlq + 1)] : n \in 1..MaxIds}

\* The DLQ when the call starts. Entry n holds event n as event.create wrote it.
\* The last entry may instead hold event 1 as an earlier retryFailed pushed it,
\* dead-lettered again: next to the entry of event 1 when that call's
\* DeleteMessage had raised, alone when it had succeeded.
InitRedrive ==
    /\ registry = ListenerPool
    /\ mainQ = {}
    /\ \E present \in SUBSET (1..MaxDlq) :
         \E hidden \in SUBSET present :
            \E again \in BOOLEAN :
               /\ again => MaxDlq \in present
               /\ dlq = {[messageId |-> n,
                          body |-> IF again /\ n = MaxDlq
                                   THEN retryMessage(Original(1), MaxDlq + 1)
                                   ELSE Original(n),
                          inflight |-> (n \in hidden)] : n \in present}
               /\ deadLettered = {m.body.eventId : m \in dlq}
    /\ nextId = MaxDlq + 1
    /\ nextMsgId = MaxDlq + 1
    /\ clock = MaxDlq + 2
    /\ InitProc
    /\ ok2xx = {}
    /\ rf = [c \in Callers |-> IdleCall]
    /\ insp = IdleInspect
    /\ cr = IdleCreate
    /\ op = NoCall
    /\ env = Configured
    /\ http = IdleHttp

NextRedrive ==
    \/ \E ids \in RequestedIds : RetryFailed(1, ids)
    \/ RetryPollExit(1)
    \/ RetryPoll(1)
    \/ RetryPollRaises(1)
    \/ RetryNotFound(1)
    \/ RetrySend(1)
    \/ RetrySendRaises(1)
    \/ RetryDelete(1)
    \/ RetryDeleteRaises(1)
    \/ RetryReturn(1)
    \/ DlqVisibilityTimeout

SpecRedrive == InitRedrive /\ [][NextRedrive]_vars

(***************************************************************************)
(* Properties of the redrive.                                              *)
(***************************************************************************)
\* a queue holds a message of this event
Holds(q, eventId) == \E m \in q : m.body.eventId = eventId

\* a queue holds a message of this event that carries the retry marker
HoldsRetry(q, eventId) ==
    \E m \in q : /\ m.body.eventId = eventId
                 /\ "retryAttempt" \in DOMAIN m.body.metadata
                 /\ m.body.metadata.retryAttempt = TRUE

\* the DLQ entries a step removes
Removed == {m \in dlq : \A x \in dlq' : x.messageId # m.messageId}

\* C9: a step of retryFailed removes an entry from the DLQ only when the main
\* queue already holds the event that was pushed for it; a SendMessage that
\* raised removes nothing; so every dead-lettered event stays in the DLQ or on
\* the main queue.
C9_DeleteOnlyAfterPush ==
    [][/\ \A m \in Removed : HoldsRetry(mainQ, m.body.eventId)
       /\ \A e \in deadLettered : Holds(dlq', e) \/ Holds(mainQ', e)]_vars

\* the SendMessage raised for a found event: its entry is still in the DLQ and
\* nothing of it is on the main queue
C9_Witness ==
    \E id \in Range(rf[1].failedRetries) :
       /\ id \in DOMAIN rf[1].foundEvents
       /\ Holds(dlq, id)
       /\ ~Holds(mainQ, id)

\* the call has returned
Returned(call) == call.pc = "done"

\* C10: an id reported in retriedEvents is on the main queue with
\* metadata.retryAttempt = true and in no entry of the DLQ; a returned call
\* reports every requested id that was never dead-lettered in notFoundEvents,
\* and when it requested only such ids the messages of both queues are those of
\* its start.
C10_RetriedIsRequeuedAndGone ==
    /\ \A id \in Range(rf[1].retriedEvents) :
          /\ HoldsRetry(mainQ, id)
          /\ ~Holds(dlq, id)
    /\ Returned(rf[1]) =>
          /\ \A id \in Range(rf[1].eventIds) \ deadLettered :
                Includes(rf[1].notFoundEvents, id)
          /\ Range(rf[1].eventIds) \cap deadLettered = {} =>
                /\ Content(mainQ) = rf[1].mainAtCall
                /\ Content(dlq) = rf[1].dlqAtCall

\* the messages of a queue whose event the call did not request
NotRequested(call, q) == {m \in q : ~Includes(call.eventIds, m.body.eventId)}

\* C11: a step of a retryFailed call leaves every DLQ entry whose eventId is not
\* in eventIds in the DLQ with the same body, and pushes no message of such an
\* event onto the main queue; when the call has returned, the DLQ entries of
\* events that were not requested are those of its start.
C11_NonRequestedEntriesUntouched ==
    [][rf[1].pc # "idle" =>
         /\ \A m \in NotRequested(rf[1], dlq) :
               \E x \in dlq' : x.messageId = m.messageId /\ x.body = m.body
         /\ NotRequested(rf[1], Content(mainQ')) = NotRequested(rf[1], Content(mainQ))
         /\ Returned(rf'[1]) =>
               NotRequested(rf[1], Content(dlq')) = NotRequested(rf[1], rf[1].dlqAtCall)]_vars

\* a returned call that retried a requested event and had read an entry of an
\* event it was not asked for, which is still in the DLQ
C11_Witness ==
    /\ Returned(rf[1])
    /\ rf[1].retriedEvents # <<>>
    /\ \E m \in NotRequested(rf[1], dlq) : m.messageId \in rf[1].readEntries

\* every requested id is a key of foundEvents
AllFound(call) == \A j \in 1..Len(call.eventIds) : call.eventIds[j] \in DOMAIN call.foundEvents

\* the step issues a ReceiveMessage on the DLQ
ReadStep == rf'[1].reads = rf[1].reads + 1

\* C12: a call issues at most maxReceiveAttempts ReceiveMessage calls, issues none
\* once every requested id has been found, and issues none after one that
\* returned no entries.
C12_PollingIsBoundedAndStopsEarly ==
    [][ReadStep =>
         /\ rf[1].reads < maxReceiveAttempts
         /\ ~AllFound(rf[1])
         /\ rf'[1].receiveAttempts = rf[1].receiveAttempts => rf'[1].pc # "poll"]_vars

\* the eventIds of the entries the polls of the call returned
ReadEventIds(call) ==
    {m.body.eventId : m \in {x \in call.dlqAtCall : x.messageId \in call.readEntries}}

\* the passes of the retry loop for this id that met this outcome
Passes(call, id, outcome) ==
    {j \in 1..Len(call.outcomes) : call.eventIds[j] = id /\ call.outcomes[j] = outcome}

\* the number of the three lists the id is in
ListsHolding(call, id) ==
    (IF Includes(call.retriedEvents, id) THEN 1 ELSE 0)
    + (IF Includes(call.failedRetries, id) THEN 1 ELSE 0)
    + (IF Includes(call.notFoundEvents, id) THEN 1 ELSE 0)

\* C13: in the result of a returned call every requested id is in exactly one of
\* retriedEvents, failedRetries, notFoundEvents: in notFoundEvents iff no poll
\* returned an entry with that id, in retriedEvents iff SendMessage and
\* DeleteMessage succeeded for it, in failedRetries iff one of them raised; and
\* totalProcessed is the number of requested ids.
C13_EachIdInExactlyOneList ==
    Returned(rf[1]) =>
       /\ \A id \in Range(rf[1].eventIds) :
             /\ ListsHolding(rf[1], id) = 1
             /\ Includes(rf[1].notFoundEvents, id) <=> id \notin ReadEventIds(rf[1])
             /\ Includes(rf[1].retriedEvents, id) <=> Passes(rf[1], id, "retried") # {}
             /\ Includes(rf[1].failedRetries, id) <=>
                   Passes(rf[1], id, "sendRaised") \cup Passes(rf[1], id, "deleteRaised") # {}
       /\ rf[1].totalProcessed = Len(rf[1].eventIds)

\* the messages a step puts on the main queue
Pushed == {m \in mainQ' : \A x \in mainQ : x.messageId # m.messageId}

\* the DLQ entry the pass of the retry loop works from
SourceEntry(call) ==
    CHOOSE e \in call.dlqAtCall : e.messageId = call.foundEvents[CurrentId(call)].receiptHandle

\* the fields retryFailed sets in metadata
RetryFields == {"retryAttempt", "originalFailureTime"}

\* C14: the message a pass of the retry loop pushes has the eventId, tenantId,
\* eventType and payload of the DLQ entry it was built from, every metadata field
\* of that entry with its value, metadata.retryAttempt = true,
\* metadata.originalFailureTime = the entry's timestamp, and the time of the push
\* as its timestamp.
C14_PushedEventIsTheEntryMarked ==
    [][\A m \in Pushed :
         LET entry == SourceEntry(rf[1]).body
         IN /\ m.body.eventId = entry.eventId
            /\ m.body.tenantId = entry.tenantId
            /\ m.body.eventType = entry.eventType
            /\ m.body.payload = entry.payload
            /\ \A f \in DOMAIN entry.metadata \ RetryFields :
                  f \in DOMAIN m.body.metadata /\ m.body.metadata[f] = entry.metadata[f]
            /\ RetryFields \subseteq DOMAIN m.body.metadata
            /\ m.body.metadata.retryAttempt = TRUE
            /\ m.body.metadata.originalFailureTime = entry.timestamp
            /\ m.body.timestamp = clock
            /\ m.body.timestamp > entry.timestamp]_vars

\* a message was pushed for an entry: it is on the main queue with the entry's
\* metadata.timestamp and the entry's timestamp as originalFailureTime
C14_Witness ==
    \E m \in mainQ : \E e \in rf[1].dlqAtCall :
       /\ m.body.eventId = e.body.eventId
       /\ m.body.metadata.timestamp = e.body.metadata.timestamp
       /\ m.body.metadata.originalFailureTime = e.body.timestamp
       /\ m.body.timestamp > e.body.timestamp

(***************************************************************************)
(* Webhook.failed: one ReceiveMessage on the DLQ, then the loop over the   *)
(* returned messages.                                                      *)
(***************************************************************************)
\* limit: z.number().min(1).max(100).optional().default(10)
Limits == {1, 3, 10, 100}

\* MaxNumberOfMessages: Math.min(limit, 10)
PageSize(limit) == IF limit < 10 THEN limit ELSE 10

\* hasMore: response.Messages.length === 10
HasMore(response) == Cardinality(response) = 10

\* the messages one ReceiveMessage call with this MaxNumberOfMessages may return
ReceivableUpTo(q, max) ==
    {S \in SUBSET Visible(q) : /\ Cardinality(S) <= max
                               /\ (S = {} => Visible(q) = {})}

\* failedEvents.push({ ... })
FailedEvent(m) ==
    [messageId |-> m.messageId, eventId |-> m.body.eventId, tenantId |-> m.body.tenantId,
     eventType |-> m.body.eventType, payload |-> m.body.payload,
     metadata |-> m.body.metadata, timestamp |-> m.body.timestamp,
     receiptHandle |-> m.messageId, failureReason |-> "Max retries exceeded"]

\* the returned messages of every tenant
MatchingAnyTenant(response, tenantId) == response

\* if (eventData.tenantId === tenantId)
Matching(response, tenantId) == {m \in response : m.body.tenantId = tenantId}

\* no call of Webhook.failed is running
NotInspecting == insp.pc \in {"idle", "done", "raised", "notConfigured"}

\* the eventIds in failedEvents of the returned object
ReturnedIds(call) == {e.eventId : e \in call.failedEvents}

\* the call and its ReceiveMessage; an empty response returns at once
\* !dlqUrl: the call raises not-found / dlq.not-configured
FailedNotConfigured(tenantId, limit, deleteProcessed) ==
    /\ NotInspecting
    /\ env.dlqUrl = NotConfigured
    /\ insp' = [IdleInspect EXCEPT !.pc = "notConfigured",
                                   !.tenantId = tenantId,
                                   !.limit = limit,
                                   !.deleteProcessed = deleteProcessed,
                                   !.dlqAtCall = Content(dlq),
                                   !.calls = insp.calls + 1,
                                   !.previous = ReturnedIds(insp)]
    /\ UNCHANGED <<pipelineVars, mainQ, dlq, nextMsgId, clock, deadLettered, rf>>

Failed(tenantId, limit, deleteProcessed) ==
    /\ NotInspecting
    /\ env.dlqUrl # NotConfigured
    /\ \E S \in ReceivableUpTo(dlq, PageSize(limit)) :
         /\ dlq' = (dlq \ S) \cup {[m EXCEPT !.inflight = TRUE] : m \in S}
         /\ insp' = [IdleInspect EXCEPT !.pc = IF S = {} THEN "done" ELSE "scan",
                                        !.tenantId = tenantId,
                                        !.limit = limit,
                                        !.deleteProcessed = deleteProcessed,
                                        !.response = {m.messageId : m \in S},
                                        !.dlqAtCall = Content(dlq),
                                        !.calls = insp.calls + 1,
                                        !.previous = ReturnedIds(insp)]
    /\ UNCHANGED <<pipelineVars, mainQ, nextMsgId, clock, deadLettered, rf>>

\* the ReceiveMessage raises: nothing catches it, the call rejects
FailedRaises(tenantId, limit, deleteProcessed) ==
    /\ NotInspecting
    /\ env.dlqUrl # NotConfigured
    /\ insp' = [IdleInspect EXCEPT !.pc = "raised",
                                   !.tenantId = tenantId,
                                   !.limit = limit,
                                   !.deleteProcessed = deleteProcessed,
                                   !.dlqAtCall = Content(dlq),
                                   !.calls = insp.calls + 1,
                                   !.previous = ReturnedIds(insp)]
    /\ UNCHANGED <<pipelineVars, mainQ, dlq, nextMsgId, clock, deadLettered, rf>>

\* The for loop and the return. Every message of the tenant is pushed to
\* failedEvents; with deleteProcessed a DeleteMessage follows each push, and one
\* that raises is caught by the try of the loop body. response.Messages is an
\* array in no order the caller chose; the model keeps it and failedEvents as sets.
FailedScan ==
    /\ insp.pc = "scan"
    /\ LET response == {m \in dlq : m.messageId \in insp.response}
           matching == Matching(response, insp.tenantId)
       IN \E raising \in SUBSET {m.messageId : m \in matching} :
             /\ ~insp.deleteProcessed => raising = {}
             /\ LET deleted == IF insp.deleteProcessed
                               THEN {m.messageId : m \in matching} \ raising
                               ELSE {}
                IN /\ dlq' = {m \in dlq : m.messageId \notin deleted}
                   /\ insp' = [insp EXCEPT !.pc = "done",
                                           !.failedEvents = {FailedEvent(m) : m \in matching},
                                           !.hasMore = HasMore(response),
                                           !.deleted = deleted]
    /\ UNCHANGED <<pipelineVars, mainQ, nextMsgId, clock, deadLettered, rf>>

(***************************************************************************)
(* One call of Webhook.failed on a DLQ of up to MaxInspected entries, the  *)
(* first of them still invisible from an earlier read.                     *)
(***************************************************************************)
InitInspect ==
    /\ registry = ListenerPool
    /\ mainQ = {}
    /\ \E n \in 0..MaxInspected :
         \E h \in 0..n :
            dlq = {[messageId |-> k, body |-> Original(k), inflight |-> (k <= h)] : k \in 1..n}
    /\ deadLettered = {m.body.eventId : m \in dlq}
    /\ nextId = MaxInspected + 1
    /\ nextMsgId = MaxInspected + 1
    /\ clock = MaxInspected + 1
    /\ InitProc
    /\ ok2xx = {}
    /\ rf = [c \in Callers |-> IdleCall]
    /\ insp = IdleInspect
    /\ cr = IdleCreate
    /\ op = NoCall
    /\ env = Configured
    /\ http = IdleHttp

NextInspect ==
    \/ /\ insp.calls = 0
       /\ \E t \in Tenants, limit \in Limits, deleteProcessed \in BOOLEAN :
             Failed(t, limit, deleteProcessed)
    \/ /\ insp.calls = 0
       /\ \E t \in Tenants, limit \in Limits, deleteProcessed \in BOOLEAN :
             FailedRaises(t, limit, deleteProcessed)
    \/ FailedScan

SpecInspect == InitInspect /\ [][NextInspect]_vars

(***************************************************************************)
(* Properties of Webhook.failed.                                           *)
(***************************************************************************)
\* the DLQ entries a step makes invisible: the entries a ReceiveMessage returned
Received == {m \in dlq : ~m.inflight /\ \E x \in dlq' : x.messageId = m.messageId /\ x.inflight}

\* the entries of the DLQ at the start of the call that its ReceiveMessage returned
ReadEntries(call) == {m \in call.dlqAtCall : m.messageId \in call.response}

\* the smaller of two numbers
Min(a, b) == IF a <= b THEN a ELSE b

\* C15: a call of Webhook.failed for tenant T with limit n receives from the DLQ
\* once, at most min(n, 10) entries, and returns exactly the received entries
\* whose tenantId is T, none of another tenant.
C15_ReturnsTheReadEntriesOfTheTenant ==
    [][/\ Received # {} =>
            /\ NotInspecting
            /\ Cardinality(Received) <= Min(insp'.limit, 10)
            /\ insp'.response = {m.messageId : m \in Received}
       /\ insp'.pc = "done" =>
            /\ insp'.failedEvents =
                 {FailedEvent(m) : m \in {x \in ReadEntries(insp') : x.body.tenantId = insp'.tenantId}}
            /\ \A e \in insp'.failedEvents : e.tenantId = insp'.tenantId]_vars

\* a returned call with limit 100 that received a page of 10 of the 11 visible
\* entries, entries of the other tenant among them, and returned some
C15_Witness ==
    /\ insp.pc = "done"
    /\ insp.limit = 100
    /\ Cardinality(insp.dlqAtCall) = 11
    /\ Cardinality(insp.response) = 10
    /\ insp.failedEvents # {}
    /\ \E m \in ReadEntries(insp) : m.body.tenantId # insp.tenantId

\* the entries of the DLQ at the start of the call that are gone
Gone(call) == {m \in call.dlqAtCall : \A x \in dlq : x.messageId # m.messageId}

\* C16: a returned call with deleteProcessed = false leaves the messages of the
\* DLQ as they were; a returned call with deleteProcessed = true has removed
\* exactly the entries it returned, all of the requested tenant.
C16_DeletesExactlyWhatItReturned ==
    insp.pc = "done" =>
       /\ ~insp.deleteProcessed => Content(dlq) = insp.dlqAtCall
       /\ insp.deleteProcessed =>
             /\ {m.messageId : m \in Gone(insp)} = {e.messageId : e \in insp.failedEvents}
             /\ \A m \in Gone(insp) : m.body.tenantId = insp.tenantId
             /\ Content(dlq) = insp.dlqAtCall \ Gone(insp)

\* C17: a returned call has hasMore = true when its ReceiveMessage returned as
\* many entries as the page it asked for, min(limit, 10), and hasMore = false
\* when it returned none.
C17_HasMoreOnAFullPage ==
    insp.pc = "done" =>
       /\ Cardinality(insp.response) = Min(insp.limit, 10) => insp.hasMore
       /\ insp.response = {} => ~insp.hasMore

(***************************************************************************)
(* The recovery sequence of the README: event 1 of tenant t1 is in the     *)
(* DLQ; Webhook.failed for t1, then at once retryFailed for the event,     *)
(* then, at any later time, Webhook.failed again. No call raises.          *)
(***************************************************************************)
\* the event the sequence is about
Landed == 1

InitScenario ==
    /\ registry = ListenerPool
    /\ mainQ = {}
    /\ \E others \in SUBSET (2..(MaxDlq + 1)) :
         \E hidden \in SUBSET others :
            dlq = {[messageId |-> n, body |-> Original(n), inflight |-> (n \in hidden)] :
                     n \in {Landed} \cup others}
    /\ deadLettered = {m.body.eventId : m \in dlq}
    /\ nextId = MaxDlq + 2
    /\ nextMsgId = MaxDlq + 2
    /\ clock = MaxDlq + 2
    /\ InitProc
    /\ ok2xx = {}
    /\ rf = [c \in Callers |-> IdleCall]
    /\ insp = IdleInspect
    /\ cr = IdleCreate
    /\ op = NoCall
    /\ env = Configured
    /\ http = IdleHttp

\* Inspect({tenantId: t1, limit: 10}) has returned and nothing was called since
FirstInspectReturned == insp.calls = 1 /\ insp.pc = "done" /\ rf[1].pc = "idle"

\* The 30 seconds of the DLQ's visibility timeout do not run out between the
\* first Inspect and the return of the Redrive that is invoked right after it.
NextScenario ==
    \/ /\ insp.calls = 0
       /\ Failed(TenantOf(Landed), 10, FALSE)
    \/ FailedScan
    \/ /\ FirstInspectReturned
       /\ RetryFailed(1, <<Landed>>)
    \/ RetryPollExit(1)
    \/ RetryPoll(1)
    \/ RetryNotFound(1)
    \/ RetrySend(1)
    \/ RetryDelete(1)
    \/ RetryReturn(1)
    \/ /\ Returned(rf[1])
       /\ DlqVisibilityTimeout
    \/ /\ Returned(rf[1])
       /\ insp.calls = 1
       /\ \E limit \in Limits : Failed(TenantOf(Landed), limit, FALSE)

SpecScenario == InitScenario /\ [][NextScenario]_vars

\* the eventIds the first Inspect of the sequence returned
FirstReturned == IF insp.calls = 1 THEN ReturnedIds(insp) ELSE insp.previous

\* C18: the first Inspect returns the landed event when it is the only entry of
\* the DLQ; the Redrive invoked right after an Inspect that returned the event
\* reports it in retriedEvents, with the event on the main queue and out of the
\* DLQ; the later Inspect does not return it.
C18_InspectRedriveInspect ==
    /\ insp.calls = 1 /\ insp.pc = "done" /\ Cardinality(insp.dlqAtCall) = 1 =>
          Landed \in ReturnedIds(insp)
    /\ Returned(rf[1]) /\ Landed \in FirstReturned =>
          /\ Includes(rf[1].retriedEvents, Landed)
          /\ HoldsRetry(mainQ, Landed)
          /\ ~Holds(dlq, Landed)
    /\ insp.calls = 2 /\ insp.pc = "done" /\ Landed \in FirstReturned =>
          Landed \notin ReturnedIds(insp)

(***************************************************************************)
(* Properties of the main queue's redrive policy.                          *)
(***************************************************************************)
\* the message as the step leaves it on the main queue, if it does
After(m) == {x \in mainQ' : x.messageId = m.messageId}

\* the step moves the message to the DLQ
DeadLetters(m) ==
    /\ After(m) = {}
    /\ \E d \in dlq' : d.messageId = m.messageId

\* the step ends an attempt on the message without consuming it: the handler
\* reported it failed, or the invocation ended without a report
Unacknowledged(m) ==
    \/ phase = "loop" /\ phase' = "idle" /\ m.messageId \in Range(batchItemFailures)
    \/ phase = "await" /\ phase' = "idle"

\* C19: a message of the main queue is handed to the processor at most
\* maxReceiveCount = 3 times; an attempt that does not consume it ends with the
\* message reported failed or with no report; the message is moved to the DLQ
\* only when it is visible again after its third attempt, and from then on it is
\* not handed to the processor and leaves the main queue for the DLQ only.
C19_DeadLetteredAfterThreeFailedAttempts ==
    [][\A m \in mainQ :
         /\ m.receiveCount <= maxReceiveCount
         /\ \A x \in After(m) :
               /\ x.receiveCount > m.receiveCount =>
                     /\ x.receiveCount = m.receiveCount + 1
                     /\ m.receiveCount < maxReceiveCount
                     /\ ~m.inflight /\ x.inflight
               /\ m.inflight /\ ~x.inflight => Unacknowledged(m)
         /\ DeadLetters(m) => m.receiveCount = maxReceiveCount /\ ~m.inflight
         /\ After(m) = {} /\ ~m.inflight => DeadLetters(m)]_vars

\* a message went through its attempts and was moved: the DLQ holds it, the main
\* queue is empty and no invocation is running
C19_Witness ==
    /\ dlq # {}
    /\ mainQ = {}
    /\ phase = "idle"

(***************************************************************************)
(* The pipeline under fair scheduling: the poller hands over visible       *)
(* messages, every await of the handler settles, a fetch answers or hangs, *)
(* a hung invocation times out, and SQS applies the redrive policy.        *)
(***************************************************************************)
PipelineFairness ==
    /\ WF_vars(ReceiveBatch)
    /\ WF_vars(MoveToDLQ)
    /\ WF_vars(RecordLookup \/ RecordLookupFails)
    /\ WF_vars(\E i \in 1..Len(deliveries) : Hang(i) \/ \E s \in {200, 500} : Respond(i, s))
    /\ WF_vars(Settle)
    /\ WF_vars(HandlerReturn)
    /\ WF_vars(InvocationTimeout)

SpecFairDelivery == Init /\ [][NextRedelivery]_vars /\ PipelineFairness

\* the step deletes the message after an attempt in which every matched listener
\* answered 2xx or none matched
ConsumedAfterSuccess(m) ==
    /\ phase = "loop" /\ phase' = "idle"
    /\ \E i \in 1..Len(batch) :
          /\ batch[i] = m.messageId
          /\ processed[i] \in {"all2xx", "noWebhooks"}

\* the event was ingested and is neither consumed nor in the DLQ
Undelivered(e) == e < nextId /\ Holds(mainQ, e)

\* C20: a message leaves the main queue only consumed after a fully successful
\* attempt or moved to the DLQ, where it stays; and every ingested event
\* eventually has left the main queue in one of these two ways.
C20_NoIngestedEventIsLost ==
    /\ [][/\ \A m \in mainQ : After(m) = {} => ConsumedAfterSuccess(m) \/ DeadLetters(m)
          /\ \A d \in dlq : \E x \in dlq' : x.messageId = d.messageId /\ x.body = d.body
          /\ \A e \in nextId..(nextId' - 1) : Holds(mainQ', e)]_vars
    /\ \A e \in 1..MaxRedelivered :
          Undelivered(e) ~> (e < nextId /\ ~Holds(mainQ, e))

\* an ingested event was consumed: it is in neither queue and no invocation runs
C20_Witness ==
    /\ nextId > 1
    /\ mainQ = {}
    /\ dlq = {}
    /\ phase = "idle"

(***************************************************************************)
(* The listener API: Webhook.create, update and remove.                    *)
(*                                                                         *)
(* create runs one branch per event type under Promise.all: each branch    *)
(* queries, then writes, and the branches interleave with each other and   *)
(* with the other calls.  update and remove are one step each.             *)
(***************************************************************************)
MaxCreated == 2
MaxClock == 3

\* createId(): identifiers that are never handed out twice
NewIds == <<"c1", "c2", "c3", "c4", "c5">>
Urls == {"u1", "u2"}
\* secret is optional: "" stands for a call that passes none (or passes "")
NoSecret == ""
\* crypto.randomBytes(32).toString("hex")
RandomSecret == "random"

\* findById: the first row of the byWebhookId query, or none
findById(reg, webhookId) == {w \in reg : w.webhookId = webhookId}

\* the existing rows a branch of create finds for its type and the url
existing(reg, tenantId, type, url) ==
    {w \in byTenantAndEventType(reg, tenantId, type) : w.url = url}

Triple(w) == <<w.tenantId, w.url, w.eventType>>

\* the call of create: the secret is fixed, and every branch sends its query
Create(tenantId, url, eventTypes, secret) ==
    /\ cr.pc = "idle"
    /\ cr' = [cr EXCEPT !.pc = "running",
                        !.tenantId = tenantId,
                        !.url = url,
                        !.eventTypes = eventTypes,
                        !.webhookSecret = IF secret = NoSecret THEN RandomSecret ELSE secret,
                        !.branch = [k \in DOMAIN eventTypes |-> "query"],
                        !.webhooks = [k \in DOMAIN eventTypes |-> ""],
                        !.error = "none"]
    /\ UNCHANGED <<registry, mainQ, dlq, nextId, nextMsgId, clock, procVars, ok2xx,
                   deadLettered, rf, insp, op, env, http>>

\* a branch gets the answer of its query: it raises when a row exists, and
\* otherwise takes a fresh id for the row it is going to write
CreateQuery(k) ==
    /\ cr.pc = "running"
    /\ k \in DOMAIN cr.branch
    /\ cr.branch[k] = "query"
    /\ IF existing(registry, cr.tenantId, cr.eventTypes[k], cr.url) # {}
       THEN cr' = [cr EXCEPT !.branch[k] = "raised",
                             !.error = "webhook.already-exists"]
       ELSE /\ cr.createIds < MaxCreated
            /\ cr' = [cr EXCEPT !.branch[k] = "create",
                                !.webhooks[k] = NewIds[cr.createIds + 1],
                                !.createIds = cr.createIds + 1]
    /\ UNCHANGED <<registry, mainQ, dlq, nextId, nextMsgId, clock, procVars, ok2xx,
                   deadLettered, rf, insp, op, env, http>>

\* the row a branch writes
NewWebhook(k, now) ==
    [webhookId |-> cr.webhooks[k], tenantId |-> cr.tenantId, url |-> cr.url,
     eventType |-> cr.eventTypes[k], secret |-> cr.webhookSecret, isActive |-> TRUE,
     createdAt |-> now, updatedAt |-> now]

\* webhookEntity.create(webhook).go() of one branch
CreateWrite(k) ==
    /\ cr.pc = "running"
    /\ k \in DOMAIN cr.branch
    /\ cr.branch[k] = "create"
    /\ registry' = registry \cup {NewWebhook(k, clock)}
    /\ cr' = [cr EXCEPT !.branch[k] = "done"]
    /\ UNCHANGED <<mainQ, dlq, nextId, nextMsgId, clock, procVars, ok2xx,
                   deadLettered, rf, insp, op, env, http>>

\* every branch has settled: the call has returned its rows, or has raised
CreateSettled ==
    /\ cr.pc = "running"
    /\ \A k \in DOMAIN cr.branch : cr.branch[k] \in {"done", "raised"}
    /\ cr' = [IdleCreate EXCEPT !.createIds = cr.createIds]
    /\ UNCHANGED <<registry, mainQ, dlq, nextId, nextMsgId, clock, procVars, ok2xx,
                   deadLettered, rf, insp, op, env, http>>

\* the argument of update: any of url, eventType and isActive, or none of them
Updates ==
    {EmptyMap, [url |-> "u1"], [eventType |-> Wildcard], [isActive |-> FALSE],
     [url |-> "u2", eventType |-> "order.created"]}

\* a call of update and its outcome; the time of the call is later than the time
\* of every earlier call
UpdateCall(webhookId, updates) ==
    /\ clock < MaxClock
    /\ clock' = clock + 1
    /\ IF findById(registry, webhookId) = {}
       THEN /\ op' = [call |-> "update", webhookId |-> webhookId, updates |-> updates,
                      error |-> "webhook.not-found", at |-> clock,
                      removed |-> op.removed]
            /\ UNCHANGED registry
       ELSE /\ op' = [call |-> "update", webhookId |-> webhookId, updates |-> updates,
                      error |-> "none", at |-> clock, removed |-> op.removed]
            /\ registry' = RegistryAfterUpdate(registry, webhookId, updates, clock')
    /\ UNCHANGED <<mainQ, dlq, nextId, nextMsgId, procVars, ok2xx, deadLettered, rf,
                   insp, cr, env, http>>

\* webhookEntity.delete({ webhookId }).go()
RegistryAfterRemoveOfUrl(reg, webhookId) ==
    {w \in reg : \A v \in findById(reg, webhookId) : w.url # v.url}

RegistryAfterRemove(reg, webhookId) ==
    {w \in reg : w.webhookId # webhookId}

\* a call of remove and its outcome
Remove(webhookId) ==
    /\ clock < MaxClock
    /\ clock' = clock + 1
    /\ IF findById(registry, webhookId) = {}
       THEN /\ op' = [call |-> "remove", webhookId |-> webhookId, updates |-> EmptyMap,
                      error |-> "webhook.not-found", at |-> clock,
                      removed |-> op.removed]
            /\ UNCHANGED registry
       ELSE /\ op' = [call |-> "remove", webhookId |-> webhookId, updates |-> EmptyMap,
                      error |-> "none", at |-> clock,
                      removed |-> op.removed \cup {webhookId}]
            /\ registry' = RegistryAfterRemove(registry, webhookId)
    /\ UNCHANGED <<mainQ, dlq, nextId, nextMsgId, procVars, ok2xx, deadLettered, rf,
                   insp, cr, env, http>>

\* the ids the calls name: rows of the table, rows create adds, and an unknown id
CalledIds == {"w2", "c1", "zz"}

InitRegistry ==
    /\ registry = {w \in ListenerPool : w.webhookId \in {"w1", "w2"}}
    /\ mainQ = {}
    /\ dlq = {}
    /\ nextId = 1
    /\ nextMsgId = 1
    /\ clock = 1
    /\ InitProc
    /\ ok2xx = {}
    /\ deadLettered = {}
    /\ rf = [c \in Callers |-> IdleCall]
    /\ insp = IdleInspect
    /\ cr = IdleCreate
    /\ op = NoCall
    /\ env = Configured
    /\ http = IdleHttp

NextRegistry ==
    \/ \E url \in Urls,
          eventTypes \in {<<"order.created">>, <<Wildcard>>, <<"order.created", Wildcard>>,
                          <<"order.created", "order.created">>},
          secret \in {NoSecret, "k"} :
         Create("t1", url, eventTypes, secret)
    \/ \E k \in 1..2 : CreateQuery(k)
    \/ \E k \in 1..2 : CreateWrite(k)
    \/ CreateSettled
    \/ \E webhookId \in CalledIds, updates \in Updates : UpdateCall(webhookId, updates)
    \/ \E webhookId \in CalledIds : Remove(webhookId)

SpecRegistry == InitRegistry /\ [][NextRegistry]_vars

(***************************************************************************)
(* Properties of the listener API                                          *)
(***************************************************************************)
\* C21: whatever calls of create, update and remove have run, and however
\* they interleaved, no two rows of the registry have the same tenantId, url
\* and eventType.
C21_OneListenerPerTriple ==
    \A v \in registry, w \in registry : Triple(v) = Triple(w) => v = w

\* C22: a create that raised webhook.already-exists has written no row; a row
\* that create writes is the only change of the registry, is a new row of a
\* triple the registry did not hold, is active, and has the supplied secret,
\* or a random one when none was supplied.
C22_CreateFailsCleanlyOrAddsOne ==
    /\ [](LET settled == /\ cr.pc = "running"
                         /\ \A k \in DOMAIN cr.branch : cr.branch[k] \in {"done", "raised"}
              written == {k \in DOMAIN cr.branch : cr.branch[k] = "done"}
          IN  settled /\ cr.error = "webhook.already-exists" => written = {})
    /\ [][LET write(k) == /\ cr.pc = "running"
                          /\ k \in DOMAIN cr.branch
                          /\ cr.branch[k] = "create"
                          /\ cr'.branch[k] = "done"
          IN  \A k \in 1..2 : write(k) =>
                \E w \in registry' :
                    /\ registry' = registry \cup {w}
                    /\ \A v \in registry : Triple(v) # Triple(w)
                    /\ Triple(w) = <<cr.tenantId, cr.url, cr.eventTypes[k]>>
                    /\ w.isActive
                    /\ w.secret = cr.webhookSecret
                    /\ w.secret \in {"k", RandomSecret}]_vars

\* C23: a call of update on an unknown id raises webhook.not-found and changes
\* nothing; a call on a known id changes that row only: the supplied fields of
\* url, eventType and isActive take the supplied values, the other fields
\* keep theirs, and updatedAt takes a new value, also when no field is
\* supplied.
C23_UpdateChangesTheSuppliedFieldsOnly ==
    [][op' # op /\ op'.call = "update" =>
        LET found == findById(registry, op'.webhookId)
        IN  IF found = {}
            THEN op'.error = "webhook.not-found" /\ registry' = registry
            ELSE /\ op'.error = "none"
                 /\ \E w \in found, u \in registry' :
                      /\ registry' = (registry \ {w}) \cup {u}
                      /\ \A f \in DOMAIN op'.updates : u[f] = op'.updates[f]
                      /\ \A f \in DOMAIN w \ (DOMAIN op'.updates \cup {"updatedAt"}) :
                            u[f] = w[f]
                      /\ u.updatedAt # w.updatedAt]_vars

\* C24: a call of remove on an id the registry does not hold raises
\* webhook.not-found and changes nothing; a call on an id it holds deletes the
\* one row of that id and no other; a call on an id that an earlier call
\* removed raises webhook.not-found.
C24_RemoveDeletesThatListenerOnce ==
    [][op' # op /\ op'.call = "remove" =>
        LET found == findById(registry, op'.webhookId)
        IN  /\ IF found = {}
               THEN op'.error = "webhook.not-found" /\ registry' = registry
               ELSE /\ op'.error = "none"
                    /\ Cardinality(found) = 1
                    /\ registry' = registry \ found
            /\ (op'.webhookId \in op.removed => op'.error = "webhook.not-found")]_vars

\* a listener that create added was removed, a second remove of its id raised
\* webhook.not-found, and the registry still holds a listener of u1
C24_Witness ==
    /\ op.call = "remove"
    /\ op.error = "webhook.not-found"
    /\ op.webhookId = "c1"
    /\ op.webhookId \in op.removed
    /\ \E w \in registry : w.url = "u1"

(***************************************************************************)
(* Properties of the processor                                             *)
(***************************************************************************)
\* C25: a delivery whose listener never answers is ended by a timeout and
\* counted as failed, so that its await settles; and every invocation that
\* was started reaches its return statement with a report for the batch.
C25_EveryAttemptTerminatesWithAReport ==
    /\ \A i \in 1..4 :
          (phase = "await" /\ i \in 1..Len(deliveries) /\ deliveries[i].result = "hung")
             ~> (phase = "loop")
    /\ (phase # "idle") ~> (phase = "loop" /\ idx > Len(batch))

\* processWebhookDelivery(record) is called for record j of the batch
StartRecord(j) ==
    /\ idx = j
    /\ RecordParseFails \/ RecordLookup \/ RecordLookupFails

\* C26: the records of a batch are processed concurrently: while a record
\* waits for the answers of its listeners, the processing of every record
\* that has not been started can start.
C26_LaterRecordsStartWithoutWaiting ==
    \A j \in 1..Len(batch) :
        (phase = "await" /\ j > idx) => ENABLED StartRecord(j)

\* C27: the handler never throws.  A record whose body does not parse, whose
\* lookup raises or that has a failed delivery is reported in
\* batchItemFailures and the records after it are processed; every invocation
\* ends with the return of a report, after every record of the batch was
\* processed.
C27_EveryFailureIsRecoveredIntoTheReport ==
    /\ [](phase # "idle" =>
            \A i \in 1..Len(processed) :
                processed[i] \in {"parseError", "lookupError", "failed"}
                    => batch[i] \in Range(batchItemFailures))
    /\ [][phase # "idle" /\ phase' = "idle" =>
            /\ phase = "loop"
            /\ Len(processed) = Len(batch)]_vars

(***************************************************************************)
(* The operations that need a transport, in deployments with and without   *)
(* the urls of the main queue and of the DLQ.                              *)
(***************************************************************************)
InitTransport ==
    /\ registry = ListenerPool
    /\ mainQ = {}
    /\ dlq = {[messageId |-> n, body |-> Original(n), inflight |-> FALSE] :
                n \in {Landed, Landed + 1}}
    /\ deadLettered = {m.body.eventId : m \in dlq}
    /\ nextId = MaxDlq + 2
    /\ nextMsgId = MaxDlq + 2
    /\ clock = MaxDlq + 2
    /\ InitProc
    /\ ok2xx = {}
    /\ rf = [c \in Callers |-> IdleCall]
    /\ insp = IdleInspect
    /\ cr = IdleCreate
    /\ op = NoCall
    /\ env \in [queueUrl : {NotConfigured, "queue"}, dlqUrl : {NotConfigured, "dlq"}]
    /\ http = IdleHttp

NextTransport ==
    \/ /\ nextId <= MaxDlq + 2
       /\ EventCreate(TenantOf(Landed), "order.created", NoMetadata)
    \/ /\ insp.calls = 0
       /\ \E deleteProcessed \in BOOLEAN : Failed(TenantOf(Landed), 10, deleteProcessed)
    \/ /\ insp.calls = 0
       /\ FailedRaises(TenantOf(Landed), 10, TRUE)
    \/ /\ insp.calls = 0
       /\ \E deleteProcessed \in BOOLEAN :
             FailedNotConfigured(TenantOf(Landed), 10, deleteProcessed)
    \/ FailedScan
    \/ \E ids \in {<<Landed>>, <<MaxDlq + 1>>} : RetryFailed(1, ids)
    \/ \E ids \in {<<Landed>>, <<MaxDlq + 1>>} : RetryFailedNotConfigured(1, ids)
    \/ RetryPollExit(1)
    \/ RetryPoll(1)
    \/ RetryPollRaises(1)
    \/ RetryNotFound(1)
    \/ RetrySend(1)
    \/ RetrySendRaises(1)
    \/ RetryDelete(1)
    \/ RetryDeleteRaises(1)
    \/ RetryReturn(1)
    \/ DlqVisibilityTimeout

SpecTransport == InitTransport /\ [][NextTransport]_vars

\* C28: an operation whose transport is not configured raises and has no
\* effect: without the url of the main queue event.create returns no created
\* event, without the url of the DLQ Webhook.failed raises, without either
\* retryFailed raises, and the messages of the queue that is not configured
\* stay as they are; every event that event.create returns is on the main
\* queue.
C28_NoTransportNoEffect ==
    [][/\ env.queueUrl = NotConfigured =>
            /\ nextId' = nextId
            /\ Content(mainQ') = Content(mainQ)
            /\ rf'[1].pc \in {"idle", "notConfigured"}
       /\ env.dlqUrl = NotConfigured =>
            /\ Content(dlq') = Content(dlq)
            /\ insp'.pc \in {"idle", "notConfigured"}
            /\ rf'[1].pc \in {"idle", "notConfigured"}
       /\ \A e \in nextId..(nextId' - 1) : Holds(mainQ', e)]_vars

\* C29: an event is never changed after its ingestion: every message that is
\* on the main queue or in the DLQ after a step has the tenantId, eventType,
\* payload, metadata and timestamp of every message of the same eventId that
\* was on either queue before the step.
C29_EventIsNeverMutated ==
    [][\A m \in mainQ' \cup dlq' : \A x \in mainQ \cup dlq :
          m.body.eventId = x.body.eventId =>
             /\ m.body.tenantId = x.body.tenantId
             /\ m.body.eventType = x.body.eventType
             /\ m.body.payload = x.body.payload
             /\ m.body.metadata = x.body.metadata
             /\ m.body.timestamp = x.body.timestamp]_vars

\* C29 as amended: every message that is on a queue after a step has the body
\* of a message that was on a queue before the step, or is a newly ingested
\* event, or is the copy that a redrive pushes of a DLQ entry it read: the copy
\* has the eventId, tenantId, eventType and payload of the entry and the
\* entry's metadata with retryAttempt set to true and originalFailureTime set
\* to the entry's timestamp, and a later timestamp.
C29_OnlyRedriveMarksTheEvent ==
    [][\A m \in mainQ' \cup dlq' :
          \/ \E x \in mainQ \cup dlq : x.body = m.body
          \/ /\ m \in mainQ'
             /\ m.body.eventId \in nextId..(nextId' - 1)
          \/ /\ m \in mainQ'
             /\ \E y \in Content(dlq) \cup rf[1].dlqAtCall :
                  /\ m.body.eventId = y.body.eventId
                  /\ m.body.tenantId = y.body.tenantId
                  /\ m.body.eventType = y.body.eventType
                  /\ m.body.payload = y.body.payload
                  /\ DOMAIN m.body.metadata =
                        DOMAIN y.body.metadata \cup {"retryAttempt", "originalFailureTime"}
                  /\ \A f \in DOMAIN y.body.metadata \ {"retryAttempt", "originalFailureTime"} :
                        m.body.metadata[f] = y.body.metadata[f]
                  /\ m.body.metadata.retryAttempt = TRUE
                  /\ m.body.metadata.originalFailureTime = y.body.timestamp
                  /\ m.body.timestamp > y.body.timestamp]_vars

\* a redrive pushed the copy of an entry that an earlier redrive had pushed: the
\* main queue holds event 1 with the timestamp of the first copy as its
\* originalFailureTime, and the DLQ still holds event 1 as it was ingested
C29_Witness ==
    /\ \E m \in mainQ :
          /\ m.body.eventId = 1
          /\ m.body.metadata.originalFailureTime = MaxDlq + 1
    /\ \E d \in dlq : d.body = Original(1)

\* C30: every request the processor has posted for a record carries the
\* serialization of the record's eventId, eventType, tenantId, payload,
\* metadata and timestamp as its body, that body signed with the secret of
\* the listener it goes to as X-Webhook-Signature, and the record's eventId,
\* eventType and tenantId in X-Event-Id, X-Event-Type and X-Tenant-Id; so the
\* attempts of one message carry the same body and, to one listener, the same
\* signature, and listeners with different secrets get different signatures
\* over the same body.
C30_RequestIsSignedSerializationOfTheEvent ==
    phase = "await" =>
        LET message == CurrentRecord.body
        IN  \A i \in 1..Len(deliveries) :
              LET d == deliveries[i]
              IN  /\ d.body = << <<"eventId", message.eventId>>,
                                 <<"eventType", message.eventType>>,
                                 <<"tenantId", message.tenantId>>,
                                 <<"payload", message.payload>>,
                                 <<"metadata", message.metadata>>,
                                 <<"timestamp", message.timestamp>> >>
                  /\ \E w \in ListenerPool :
                        /\ w.webhookId = d.webhookId
                        /\ d.url = w.url
                        /\ d.signature = <<"hmac-sha256", w.secret, d.body>>
                  /\ d.xEventId = message.eventId
                  /\ d.xEventType = message.eventType
                  /\ d.xTenantId = message.tenantId
                  /\ \A j \in 1..Len(deliveries) :
                        /\ deliveries[j].body = d.body
                        /\ (deliveries[j].signature = d.signature) <=>
                              (\E v, w \in ListenerPool :
                                  /\ v.webhookId = d.webhookId
                                  /\ w.webhookId = deliveries[j].webhookId
                                  /\ v.secret = w.secret)

\* the second attempt of a message is posted to two listeners: the two requests
\* have the same body and different signatures
C30_Witness ==
    /\ phase = "await"
    /\ CurrentRecord.receiveCount = 2
    /\ Len(deliveries) = 2
    /\ deliveries[1].body = deliveries[2].body
    /\ deliveries[1].signature # deliveries[2].signature

(***************************************************************************)
(* Webhook.handler({ tenantId }): the HTTP front of the operations.  A     *)
(* webhookPath is kept as the sequence of its segments: "" is <<>>, "/" is *)
(* <<"">>, "/events/retry" is <<"events", "retry">>, so that               *)
(* webhookPath.split("/").length is Len + 1.                               *)
(***************************************************************************)
MaxRequests == 2

\* the chain of if / else if over webhookPath and method; "none" falls through
\* to the 404 response
Route(method, path) ==
    IF path \in {<<>>, <<"">>}
    THEN (IF method = "POST" THEN "create"
          ELSE IF method = "GET" THEN "list"
          ELSE "none")
    ELSE IF Len(path) + 1 = 2
    THEN (IF method = "GET" THEN "get"
          ELSE IF method \in {"PUT", "PATCH"} THEN "update"
          ELSE IF method = "DELETE" THEN "remove"
          ELSE "none")
    ELSE IF path = <<"failed">>
    THEN (IF method = "GET" THEN "failed" ELSE "none")
    ELSE IF path = <<"events">>
    THEN (IF method = "POST" THEN "event.create" ELSE "none")
    ELSE IF path = <<"events", "retry">>
    THEN (IF method = "POST" THEN "event.retryFailed" ELSE "none")
    ELSE "none"

\* new VisibleError(kind, code, message): an Error with these three fields
VisibleError(kind, code) == [kind |-> kind, code |-> code, message |-> code]

\* the catch block of the handler: the status of the response to an error
ErrorStatus(error) ==
    IF "type" \in DOMAIN error
    THEN (IF error.type = "not-found" THEN 404
          ELSE IF error.type = "auth" THEN 403
          ELSE 400)
    ELSE 500

\* the handler takes a request
Accepted(method, path) ==
    [IdleHttp EXCEPT !.pc = "dispatched", !.method = method, !.path = path,
                     !.route = Route(method, path),
                     !.webhookId = IF Len(path) = 1 THEN path[1] ELSE "",
                     !.requests = http.requests + 1]

\* c.json(result), or the response of the catch block
Responded(request, error, rows) ==
    [request EXCEPT !.pc = "responded",
                    !.error = error,
                    !.status = IF error = NoError THEN 200 ELSE ErrorStatus(error),
                    !.rows = rows]

\* a request of a route that the handler serves with one call at most:
\* list (GET /), get (GET /{id}), update (PUT or PATCH /{id}),
\* remove (DELETE /{id}), or no route at all
HttpRequest(method, path, updates) ==
    LET route == Route(method, path)
        request == Accepted(method, path)
        notFound == VisibleError("not-found", "webhook.not-found")
    IN  /\ http.pc \in {"idle", "responded"}
        /\ http.requests < MaxRequests
        /\ route \in {"none", "list", "get", "update", "remove"}
        /\ clock' = clock + 1
        /\ CASE route = "none" ->
                  /\ http' = [request EXCEPT !.pc = "responded", !.status = 404]
                  /\ UNCHANGED registry
             [] route = "list" ->
                  /\ http' = Responded(request, NoError,
                                       {w \in registry : w.tenantId = http.tenantId})
                  /\ UNCHANGED registry
             [] route = "get" ->
                  /\ http' = Responded(request, NoError, findById(registry, path[1]))
                  /\ UNCHANGED registry
             [] route \in {"update", "remove"} /\ findById(registry, path[1]) = {} ->
                  /\ http' = Responded(request, notFound, {})
                  /\ UNCHANGED registry
             [] route = "update" /\ findById(registry, path[1]) # {} ->
                  /\ registry' = RegistryAfterUpdate(registry, path[1], updates, clock')
                  /\ http' = Responded(request, NoError, findById(registry', path[1]))
             [] route = "remove" /\ findById(registry, path[1]) # {} ->
                  /\ registry' = RegistryAfterRemove(registry, path[1])
                  /\ http' = Responded(request, NoError, {})
        /\ UNCHANGED <<mainQ, dlq, nextId, nextMsgId, procVars, ok2xx, deadLettered, rf,
                       insp, cr, op, env>>

\* POST / and POST /events/retry: the handler awaits create or retryFailed
HttpAwait(method, path) ==
    /\ http.pc \in {"idle", "responded"}
    /\ http.requests < MaxRequests
    /\ Route(method, path) \in {"create", "event.retryFailed"}
    /\ http' = Accepted(method, path)
    /\ UNCHANGED <<registry, mainQ, dlq, nextId, nextMsgId, clock, procVars, ok2xx,
                   deadLettered, rf, insp, cr, op, env>>

\* create has rejected with its VisibleError, or has returned its rows
HttpCreateSettles ==
    /\ http.pc = "dispatched"
    /\ http.route = "create"
    /\ cr.pc = "running"
    /\ \/ /\ cr.error # "none"
          /\ http' = Responded(http, VisibleError("input", cr.error), {})
       \/ /\ \A k \in DOMAIN cr.branch : cr.branch[k] = "done"
          /\ http' = Responded(http, NoError,
                               {w \in registry : \E k \in DOMAIN cr.webhooks :
                                                    w.webhookId = cr.webhooks[k]})
    /\ UNCHANGED <<registry, mainQ, dlq, nextId, nextMsgId, clock, procVars, ok2xx,
                   deadLettered, rf, insp, cr, op, env>>

\* retryFailed has returned its report, or an error of the SQS client came up
HttpRetrySettles ==
    /\ http.pc = "dispatched"
    /\ http.route = "event.retryFailed"
    /\ rf[1].pc \in {"done", "raised"}
    /\ http' = Responded(http,
                         IF rf[1].pc = "raised"
                         THEN [name |-> "Error", message |-> "sqs"]
                         ELSE NoError,
                         {})
    /\ UNCHANGED <<registry, mainQ, dlq, nextId, nextMsgId, clock, procVars, ok2xx,
                   deadLettered, rf, insp, cr, op, env>>

InitHttp ==
    /\ registry = ListenerPool
    /\ mainQ = {}
    /\ dlq = {[messageId |-> n, body |-> Original(n), inflight |-> FALSE] :
                n \in {Landed, Landed + 1}}
    /\ deadLettered = {m.body.eventId : m \in dlq}
    /\ nextId = MaxDlq + 2
    /\ nextMsgId = MaxDlq + 2
    /\ clock = MaxDlq + 2
    /\ InitProc
    /\ ok2xx = {}
    /\ rf = [c \in Callers |-> IdleCall]
    /\ insp = IdleInspect
    /\ cr = IdleCreate
    /\ op = NoCall
    /\ env = Configured
    /\ http = IdleHttp

\* The routes "failed" and "event.create" are never the value of Route, so the
\* handler never calls these two operations.
NextHttp ==
    LET Methods == {"GET", "POST", "PUT", "PATCH", "DELETE"}
        WebhookPaths ==
            {<<>>, <<"">>, <<"w1">>, <<"w4">>, <<"zz">>, <<"failed">>, <<"events">>,
             <<"events", "retry">>, <<"events", "x">>}
    IN  \/ \E method \in Methods, path \in WebhookPaths, updates \in Updates :
              HttpRequest(method, path, updates)
        \/ \E method \in Methods, path \in WebhookPaths : HttpAwait(method, path)
        \/ /\ http.pc = "dispatched"
           /\ http.route = "create"
           /\ \E url \in Urls, eventTypes \in {<<"order.created">>, <<"order.created", Wildcard>>} :
                 Create(http.tenantId, url, eventTypes, "k")
        \/ \E k \in 1..2 : CreateQuery(k)
        \/ \E k \in 1..2 : CreateWrite(k)
        \/ HttpCreateSettles
        \/ /\ http.pc # "dispatched"
           /\ CreateSettled
        \/ /\ http.pc = "dispatched"
           /\ http.route = "event.retryFailed"
           /\ \E ids \in {<<Landed>>, <<Landed + 1>>, <<MaxDlq + 1>>} : RetryFailed(1, ids)
        \/ RetryPollExit(1)
        \/ RetryPoll(1)
        \/ RetryPollRaises(1)
        \/ RetryNotFound(1)
        \/ RetrySend(1)
        \/ RetrySendRaises(1)
        \/ RetryDelete(1)
        \/ RetryDeleteRaises(1)
        \/ RetryReturn(1)
        \/ HttpRetrySettles

SpecHttp == InitHttp /\ [][NextHttp]_vars

\* C31: the handler dispatches every route that the README lists to its
\* operation: POST / to create, GET / to list, GET, PUT and DELETE /{id} to get,
\* update and remove, POST /events to event.create, GET /failed to failed and
\* POST /events/retry to event.retryFailed; a request of any other method and
\* path is answered with 404 and calls no operation.
C31_EveryListedRouteReachesItsOperation ==
    LET listed ==
            IF http.path \in {<<>>, <<"">>} /\ http.method = "POST" THEN "create"
            ELSE IF http.path \in {<<>>, <<"">>} /\ http.method = "GET" THEN "list"
            ELSE IF http.path = <<"events">> /\ http.method = "POST" THEN "event.create"
            ELSE IF http.path = <<"failed">> /\ http.method = "GET" THEN "failed"
            ELSE IF http.path = <<"events", "retry">> /\ http.method = "POST"
            THEN "event.retryFailed"
            ELSE IF Len(http.path) = 1 /\ http.path # <<"">> /\ http.method = "GET"
            THEN "get"
            ELSE IF Len(http.path) = 1 /\ http.path # <<"">> /\ http.method = "PUT"
            THEN "update"
            ELSE IF Len(http.path) = 1 /\ http.path # <<"">> /\ http.method = "DELETE"
            THEN "remove"
            ELSE "none"
    IN  http.pc # "idle" =>
            /\ http.route = listed
            /\ listed = "none" /\ http.pc = "responded" => http.status = 404

\* C32: through a handler bound to one tenant no request reads, updates or
\* deletes a listener of another tenant, nor redrives a dead-letter event of
\* another tenant: no response carries a row of another tenant, every step
\* leaves the rows and the dead-letter entries of every other tenant as they
\* were, and no step pushes an event of another tenant onto the main queue.
C32_OtherTenantsAreOutOfReach ==
    /\ [](\A w \in http.rows : w.tenantId = http.tenantId)
    /\ [][/\ {w \in registry' : w.tenantId # http.tenantId}
               = {w \in registry : w.tenantId # http.tenantId}
          /\ {m \in Content(dlq') : m.body.tenantId # http.tenantId}
               = {m \in Content(dlq) : m.body.tenantId # http.tenantId}
          /\ \A m \in Pushed : m.body.tenantId = http.tenantId]_vars

\* C33: when an operation called by the handler raises a VisibleError, the
\* response has status 404 for kind "not-found", 403 for kind "auth" and 400
\* for any other kind; only an error that is not a VisibleError is answered
\* with 500.
C33_VisibleErrorsKeepTheirStatus ==
    LET visible == /\ "kind" \in DOMAIN http.error
                   /\ http.error.kind \in {"input", "auth", "not-found"}
    IN  http.pc = "responded" =>
            /\ visible =>
                  http.status = IF http.error.kind = "not-found" THEN 404
                                ELSE IF http.error.kind = "auth" THEN 403
                                ELSE 400
            /\ http.status = 500 => ~visible /\ http.error # NoError

\* the messages on the main queue that were not there when the call started
PushedBy(call) == {m \in Content(mainQ) : m \notin call.mainAtCall}

\* C34: when a redrive call has returned, every requested event is in one
\* place: an id reported in retriedEvents is on the main queue and in no entry
\* of the DLQ, an id reported in failedRetries or notFoundEvents was not pushed
\* onto the main queue by the call, and no requested event was pushed by the
\* call and is still in the DLQ.
C34_RedrivenEventIsInOnePlace ==
    Returned(rf[1]) =>
       \A id \in Range(rf[1].eventIds) :
          /\ Includes(rf[1].retriedEvents, id) =>
                Holds(PushedBy(rf[1]), id) /\ ~Holds(dlq, id)
          /\ Includes(rf[1].failedRetries, id) \/ Includes(rf[1].notFoundEvents, id) =>
                ~Holds(PushedBy(rf[1]), id)
          /\ ~(Holds(PushedBy(rf[1]), id) /\ Holds(dlq, id))

\* C35: a redrive call pushes each distinct event at most once and reports each
\* distinct id at most once, also when eventIds repeats an id; and once every
\* distinct requested id has been found the call issues no further
\* ReceiveMessage.
C35_RepeatedIdsCountOnce ==
    /\ [](\A id \in Range(rf[1].eventIds) :
            /\ Cardinality({m \in PushedBy(rf[1]) : m.body.eventId = id}) <= 1
            /\ Cardinality({j \in 1..Len(rf[1].outcomes) : rf[1].eventIds[j] = id}) <= 1)
    /\ [][rf'[1].reads = rf[1].reads + 1 =>
            \E id \in Range(rf[1].eventIds) : id \notin DOMAIN rf[1].foundEvents]_vars

(***************************************************************************)
(* A redrive call that is the only consumer of the DLQ and whose every     *)
(* ReceiveMessage returns a full page: MaxNumberOfMessages entries the     *)
(* call has not read yet, or all of them when fewer are left.              *)
(***************************************************************************)
NextFullPages ==
    \/ \E ids \in {<<1>>, <<MaxInspected>>, <<1, MaxInspected>>,
                   <<MaxInspected, MaxInspected>>, <<MaxInspected + 1>>} :
          RetryFailed(1, ids)
    \/ RetryPollExit(1)
    \/ /\ RetryPoll(1)
       /\ Cardinality(rf'[1].readEntries)
            = Min(Cardinality(rf[1].dlqAtCall),
                  Cardinality(rf[1].readEntries) + MaxNumberOfMessages)
    \/ RetryPollRaises(1)
    \/ RetryNotFound(1)
    \/ RetrySend(1)
    \/ RetrySendRaises(1)
    \/ RetryDelete(1)
    \/ RetryDeleteRaises(1)
    \/ RetryReturn(1)

SpecFullPages == InitInspect /\ [][NextFullPages]_vars

\* C36: when the DLQ holds no more entries than maxReceiveAttempts reads of
\* MaxNumberOfMessages entries can scan, every read returns a full page and
\* nothing else reads the DLQ during the call, a returned call has found every
\* requested id that was in the DLQ at its start and reports none of them in
\* notFoundEvents.
C36_EveryPresentIdIsFound ==
    /\ Returned(rf[1])
    /\ Cardinality(rf[1].dlqAtCall) <= maxReceiveAttempts * MaxNumberOfMessages
    => \A id \in Range(rf[1].eventIds) :
          Holds(rf[1].dlqAtCall, id) =>
             /\ id \in DOMAIN rf[1].foundEvents
             /\ ~Includes(rf[1].notFoundEvents, id)

\* the call needed a second page to find the requested id, and has returned
C36_Witness ==
    /\ Returned(rf[1])
    /\ rf[1].receiveAttempts >= 2
    /\ Cardinality(rf[1].dlqAtCall) > MaxNumberOfMessages
    /\ \E id \in Range(rf[1].eventIds) :
          /\ Holds(rf[1].dlqAtCall, id)
          /\ Includes(rf[1].retriedEvents, id)

(***************************************************************************)
(* Two retryFailed calls for the same event, running at the same time.     *)
(***************************************************************************)
NextConcurrent ==
    \/ \E c \in Callers : RetryFailed(c, <<1>>)
    \/ \E c \in Callers : RetryPollExit(c)
    \/ \E c \in Callers : RetryPoll(c)
    \/ \E c \in Callers : RetryPollRaises(c)
    \/ \E c \in Callers : RetryNotFound(c)
    \/ \E c \in Callers : RetrySend(c)
    \/ \E c \in Callers : RetrySendRaises(c)
    \/ \E c \in Callers : RetryDelete(c)
    \/ \E c \in Callers : RetryDeleteRaises(c)
    \/ \E c \in Callers : RetryReturn(c)
    \/ DlqVisibilityTimeout

SpecConcurrent == InitRedrive /\ [][NextConcurrent]_vars

\* C37: when two redrive calls for the same eventId overlap and the DLQ holds
\* one entry of that id, the event is pushed onto the main queue at most once
\* in total, at most one of the calls reports the id in retriedEvents, and the
\* other call then reports it in notFoundEvents, or in failedRetries after a
\* SendMessage that raised, so without having pushed.
C37_ConcurrentRedrivesPushOnce ==
    LET entries == {m \in rf[1].dlqAtCall \cup rf[2].dlqAtCall : m.body.eventId = 1}
        overlap == \A c \in Callers : rf[c].pc # "idle"
    IN  overlap /\ Cardinality(entries) = 1 =>
           /\ Cardinality({m \in mainQ : m.body.eventId = 1}) <= 1
           /\ ~(Includes(rf[1].retriedEvents, 1) /\ Includes(rf[2].retriedEvents, 1))
           /\ \A c, d \in Callers :
                 c # d /\ Includes(rf[c].retriedEvents, 1) /\ Returned(rf[d]) =>
                    rf[d].outcomes \in {<<"notFound">>, <<"sendRaised">>}

\* C38: a create with several event types is all-or-nothing: when every
\* branch has settled and the call has raised, no branch has written a row;
\* when it has not raised, the branch of every requested type has written a
\* row of its own, and the rows of the call carry one and the same secret.
C38_CreateOfSeveralTypesIsAllOrNothing ==
    LET settled == /\ cr.pc = "running"
                   /\ \A k \in DOMAIN cr.branch : cr.branch[k] \in {"done", "raised"}
        written == {k \in DOMAIN cr.branch : cr.branch[k] = "done"}
        rows(k) == {w \in registry : w.webhookId = cr.webhooks[k]}
    IN  settled /\ Len(cr.eventTypes) >= 2 =>
           IF cr.error # "none"
           THEN written = {}
           ELSE /\ written = DOMAIN cr.branch
                /\ \A j, k \in written : j # k => cr.webhooks[j] # cr.webhooks[k]
                /\ \A j, k \in written : \A v \in rows(j), w \in rows(k) :
                      v.secret = w.secret

====
